---------------------------- MODULE Spec2Model ----------------------------
(***************************************************************************)
(* A model of the Impact & Alert Decision Engine of the Nigeria IBF        *)
(* system: MLEnhancedVulnerability, AdaptiveImpactFunction and             *)
(* MultiHazardInteraction (advanced_multi_hazard.py), QualityController,   *)
(* AlertManager and ProductionForecastEngine.run_forecast                  *)
(* (production_forecast_engine.py).                                        *)
(*                                                                         *)
(* Each component has its own specification over its own variables; the    *)
(* variables of the other components stay at their initial values.         *)
(*   SpecVuln     the vulnerability estimator and its model files          *)
(*   SpecAlert    AlertManager.generate_alert_decision                     *)
(*   SpecRun      ProductionForecastEngine.run_forecast, step by step      *)
(*   SpecCombine  MultiHazardInteraction.combine_hazards                   *)
(*   SpecCurve    AdaptiveImpactFunction.create_contextual_impact_function *)
(*                                                                         *)
(* Real numbers are fixed-point integers: a fraction f is the integer      *)
(* f * Scale.  Python's None is the string "None".                         *)
(***************************************************************************)
EXTENDS Integers, Naturals, Sequences, FiniteSets, TLC

\* Fixed-point unit: 1.0 is Scale.
Scale == 10000

None == "None"

HazardTypes == {"flood", "conflict"}

(***************************************************************************)
(* HazardContext (the fields the modelled code reads).                     *)
(***************************************************************************)

\* Keys of config.vulnerability.flood_params and conflict_params.
TableRegions ==
    {"North_West", "North_East", "North_Central",
     "South_West", "South_East", "South_South"}

\* Region strings a caller may pass: the table keys and two that are no key.
RegionStrings == TableRegions \cup {"Lake_Chad", ""}

\* The context of the test suite's TestVulnerabilityModels.setUp.
BaseContext ==
    [ state                  |-> "Benue",
      region                 |-> "North_Central",
      population_density     |-> 150,
      poverty_rate           |-> 4500,
      urban_rural            |-> "rural",
      infrastructure_quality |-> 3500,
      early_warning_coverage |-> 5500 ]

VulnContexts == { [BaseContext EXCEPT !.region = r] : r \in RegionStrings }

VARIABLES
    \* -- MLEnhancedVulnerability and the model files it reads and writes
    disk,            \* models_dir: hazard type -> its model file (FileStates)
    flood_model,     \* self.flood_model
    conflict_model,  \* self.conflict_model
    scaler,          \* self.scaler: Unfitted or the data set it was fitted on
    trained,         \* self.trained
    loaded_from,     \* history: the models_dir this estimator was constructed against
    train_calls,     \* history: hazard types train() was called for since construction
    last_predict,    \* history: the last predict_vulnerability call and its outcome
    \* -- AlertManager
    displacement_alert_levels,  \* config.forecast.displacement_alert_levels
    level_calls,     \* history: the last two _determine_alert_level calls, latest last
    forecast_results,  \* the forecasted_displacement column handed to generate_alert_decision
    metrics,         \* the ForecastMetrics handed to generate_alert_decision
    alert_call,      \* the statistics and AlertDecision of the generate_alert_decision call
    previous_alert,  \* history: the same of the generate_alert_decision call before it
    clock,           \* what datetime.now() reads, in ticks
    \* -- ProductionForecastEngine.run_forecast
    hazard_types,    \* the hazard_types argument, as a set
    hazard_files,    \* what _load_hazard finds for each requested hazard type
    exposure,        \* what _load_exposure returns
    n_samples,       \* config.uncertainty.n_samples
    max_forecast_error_factor,  \* config.validation.max_forecast_error_factor
    alert_channels,  \* config.alert: the enabled ones of email, sms, webhook
    run_pc,          \* the statement run_forecast is at
    hazards,         \* local hazards: hazard type -> loaded Hazard
    pending,         \* the hazard types the current for-loop has still to visit
    impacts,         \* local impacts: name -> forecasted_displacement column
    results_df,      \* local results_df: the compiled forecasted_displacement column
    output_warnings, \* local warnings after validate_outputs
    run_metrics,     \* local metrics: quality_score, confidence_level, n_warnings
    run_alert,       \* local alert: the AlertDecision
    saved,           \* what _save_results has written
    sent,            \* the channels distribute_alert has sent on
    steps,           \* history: the calls run_forecast has made, in order
    \* -- MultiHazardInteraction.combine_hazards
    flood_conflict_interaction,  \* config.vulnerability.flood_conflict_interaction
    combine_args,    \* the arguments of the combine_hazards call
    combine_result,  \* what combine_hazards returned: combined and metrics
    \* -- AdaptiveImpactFunction.create_contextual_impact_function
    flood_depth_threshold_m,      \* config.forecast.flood_depth_threshold_m
    conflict_fatality_threshold,  \* config.forecast.conflict_fatality_threshold
    curve_args,      \* self.hazard_type and the arguments of the call
    impf,            \* the impact function the call returned
    \* -- QualityController called on its own
    inputs_call,     \* a validate_inputs call: its arguments and what it returned
    outputs_call,    \* a validate_outputs call: its arguments and what it returned
    score_call,      \* a calculate_quality_score call: arguments and result
    \* -- AlertSystem (alert_system.py)
    forecasts,       \* self.forecasts: the rows of the forecasts frame
    alerts,          \* self.alerts: None, or the rows of the alerts frame
    generated,       \* history: what the latest generate_alerts call returned
    report           \* history: the latest get_critical_alerts or create_alert_bulletin call

vulnVars ==
    << disk, flood_model, conflict_model, scaler, trained,
       loaded_from, train_calls, last_predict >>

alertVars ==
    << displacement_alert_levels, level_calls, forecast_results, metrics, alert_call,
       previous_alert, clock >>

runInputs ==
    << hazard_types, hazard_files, exposure, n_samples, max_forecast_error_factor,
       alert_channels >>

runVars ==
    << runInputs, run_pc, hazards, pending, impacts, results_df, output_warnings,
       run_metrics, run_alert, saved, sent, steps >>

combineVars == << flood_conflict_interaction, combine_args, combine_result >>

curveVars == << flood_depth_threshold_m, conflict_fatality_threshold,
               curve_args, impf >>

qcVars == << inputs_call, outputs_call, score_call >>

legacyVars == << forecasts, alerts, generated, report >>

vars == << vulnVars, alertVars, runVars, combineVars, curveVars, qcVars, legacyVars >>

\* What a component's operations leave alone: the other components' variables.
notVulnVars == << alertVars, runVars, combineVars, curveVars, qcVars, legacyVars >>

notAlertVars == << vulnVars, runVars, combineVars, curveVars, qcVars, legacyVars >>

notRunVars == << vulnVars, alertVars, combineVars, curveVars, qcVars, legacyVars >>

notCombineVars == << vulnVars, alertVars, runVars, curveVars, qcVars, legacyVars >>

notCurveVars == << vulnVars, alertVars, runVars, combineVars, qcVars, legacyVars >>

notQcVars == << vulnVars, alertVars, runVars, combineVars, curveVars, legacyVars >>

notLegacyVars == << vulnVars, alertVars, runVars, combineVars, curveVars, qcVars >>

(***************************************************************************)
(* MLEnhancedVulnerability                                                 *)
(***************************************************************************)

\* Number of distinct historical data sets train() may be given.
MaxData == 2

DataSets == 1 .. MaxData

\* A fitted GradientBoostingRegressor is known by the data set it was fitted on;
\* NoModel is the field value None.
Regressors == [ hazard : HazardTypes, data : DataSets ]

NoModel == [ hazard |-> "None", data |-> 0 ]

\* StandardScaler() before any fit; a fitted scaler is the data set it was fitted on.
Unfitted == 0

\* A model file of models_dir: absent, unreadable by joblib.load, or a dumped regressor.
FileStates ==
    { [ state |-> "missing", model |-> NoModel ],
      [ state |-> "corrupt", model |-> NoModel ] }
    \cup { [ state |-> "saved", model |-> m ] : m \in Regressors }

\* _load_models: the fields after the try/except.  The flood file is read first;
\* a joblib.load that raises leaves the later assignments undone and trained False.
load_models(d) ==
    IF d["flood"].state = "corrupt"
    THEN [ flood_model |-> NoModel, conflict_model |-> NoModel, trained |-> FALSE ]
    ELSE IF d["conflict"].state = "corrupt"
    THEN [ flood_model |-> d["flood"].model, conflict_model |-> NoModel,
           trained |-> FALSE ]
    ELSE [ flood_model |-> d["flood"].model, conflict_model |-> d["conflict"].model,
           trained |-> TRUE ]

\* The table cell _get_regional_default reads: params[key]['p50'] of the
\* hazard type's table (any hazard type other than 'flood' uses conflict_params).
ParamCell(hazard_type, key) ==
    [ table |-> IF hazard_type = "flood" THEN "flood_params" ELSE "conflict_params",
      key   |-> key,
      field |-> "p50" ]

get_regional_default_wrong_default(region, hazard_type) ==
    IF region \in TableRegions
    THEN ParamCell(hazard_type, region)
    ELSE ParamCell(hazard_type, "North_West")

\* _get_regional_default: dict.get(region, table['North_Central'])['p50'].
get_regional_default(region, hazard_type) ==
    IF region \in TableRegions
    THEN ParamCell(hazard_type, region)
    ELSE ParamCell(hazard_type, "North_Central")

\* np.clip bounds of predict_vulnerability, in the hazard's own unit.
ClipRange(hazard_type) ==
    IF hazard_type = "flood"
    THEN [ lo |-> 500, hi |-> 2 * Scale ]
    ELSE [ lo |-> 5 * Scale, hi |-> 100 * Scale ]

NoCell == [ table |-> "None", key |-> "", field |-> "" ]

\* The estimator's fields and the model files, as one value.
EstimatorFields ==
    [ flood_model |-> flood_model, conflict_model |-> conflict_model,
      scaler |-> scaler, trained |-> trained, files |-> disk ]

NoCall ==
    [ context |-> BaseContext, hazard_type |-> "None", model |-> NoModel,
      train_calls |-> {},
      outcome |-> [ kind |-> "none", error |-> "", cell |-> NoCell,
                    model |-> NoModel, scaler |-> Unfitted ],
      fields_kept |-> TRUE ]

\* predict_vulnerability: what the call returns or raises, given the fields.
\*   default: the regional table cell returned by the fallback;
\*   raise:   scaler.transform on a scaler never fitted (NotFittedError), or
\*            .predict on a model field that is None (AttributeError);
\*   learned: the clipped prediction of the regressor on the scaled features.
predict_outcome(context, hazard_type, fm, cm, sc, tr) ==
    IF ~tr
    THEN [ kind |-> "default", error |-> "",
           cell |-> get_regional_default(context.region, hazard_type),
           model |-> NoModel, scaler |-> Unfitted ]
    ELSE IF sc = Unfitted
    THEN [ kind |-> "raise", error |-> "NotFittedError", cell |-> NoCell,
           model |-> NoModel, scaler |-> Unfitted ]
    ELSE LET model == IF hazard_type = "flood" THEN fm ELSE cm
         IN  IF model = NoModel
             THEN [ kind |-> "raise", error |-> "AttributeError", cell |-> NoCell,
                    model |-> NoModel, scaler |-> sc ]
             ELSE [ kind |-> "learned", error |-> "", cell |-> NoCell,
                    model |-> model, scaler |-> sc ]

\* __init__: fresh fields, then _load_models against the current models_dir.
Construct ==
    LET m == load_models(disk)
    IN  /\ flood_model' = m.flood_model
        /\ conflict_model' = m.conflict_model
        /\ trained' = m.trained
        /\ scaler' = Unfitted
        /\ loaded_from' = disk
        /\ train_calls' = {}
        /\ last_predict' = NoCall
        /\ UNCHANGED << disk, notVulnVars >>

\* train(historical_data, hazard_type): refit the one scaler, fit and store the
\* regressor, set trained, and _save_model (which dumps the regressor only).
Train(data, hazard_type) ==
    LET model == [ hazard |-> hazard_type, data |-> data ]
    IN  /\ scaler' = data
        /\ IF hazard_type = "flood"
           THEN flood_model' = model /\ UNCHANGED conflict_model
           ELSE conflict_model' = model /\ UNCHANGED flood_model
        /\ trained' = TRUE
        /\ disk' = [disk EXCEPT ![hazard_type] = [ state |-> "saved", model |-> model ]]
        /\ train_calls' = train_calls \cup {hazard_type}
        /\ UNCHANGED << loaded_from, last_predict, notVulnVars >>

\* predict_vulnerability fitting the scaler (fit_transform) after its work.
Predict_refitting(context, hazard_type) ==
    /\ scaler' = 1
    /\ UNCHANGED << disk, flood_model, conflict_model, trained,
                    loaded_from, train_calls, notVulnVars >>
    /\ last_predict' =
          [ context     |-> context,
            hazard_type |-> hazard_type,
            model       |-> IF hazard_type = "flood" THEN flood_model ELSE conflict_model,
            train_calls |-> train_calls,
            outcome     |-> predict_outcome(context, hazard_type, flood_model,
                                            conflict_model, scaler, trained),
            fields_kept |-> (EstimatorFields' = EstimatorFields) ]

\* predict_vulnerability(context, hazard_type): it assigns to no field; the
\* history keeps whether the call left the fields and files as it found them.
Predict(context, hazard_type) ==
    /\ UNCHANGED << disk, flood_model, conflict_model, scaler, trained,
                    loaded_from, train_calls, notVulnVars >>
    /\ last_predict' =
          [ context     |-> context,
            hazard_type |-> hazard_type,
            model       |-> IF hazard_type = "flood" THEN flood_model ELSE conflict_model,
            train_calls |-> train_calls,
            outcome     |-> predict_outcome(context, hazard_type, flood_model,
                                            conflict_model, scaler, trained),
            fields_kept |-> (EstimatorFields' = EstimatorFields) ]

(***************************************************************************)
(* AlertManager                                                            *)
(***************************************************************************)

\* Displacement figures (people) used as thresholds and as forecast values.
ThresholdLevels == {6000, 12000, 30000, 60000}

DispValues == {0} \cup ThresholdLevels

AlertLevelNames == {"watch", "advisory", "warning", "emergency"}

ConfidenceLevels == {"high", "medium", "low"}

\* _determine_alert_level with the two upper tiers read from the mean.
determine_alert_level_mean_tiers(thresholds, mean_disp, p90_disp) ==
    IF mean_disp >= thresholds["emergency"] THEN "emergency"
    ELSE IF mean_disp >= thresholds["warning"] THEN "warning"
    ELSE IF mean_disp >= thresholds["advisory"] THEN "advisory"
    ELSE IF mean_disp >= thresholds["watch"] THEN "watch"
    ELSE "none"

\* _determine_alert_level with the warning comparison inverted.
determine_alert_level_inverted(thresholds, mean_disp, p90_disp) ==
    IF p90_disp >= thresholds["emergency"] THEN "emergency"
    ELSE IF p90_disp <= thresholds["warning"] THEN "warning"
    ELSE IF mean_disp >= thresholds["advisory"] THEN "advisory"
    ELSE IF mean_disp >= thresholds["watch"] THEN "watch"
    ELSE "none"

\* _determine_alert_level(mean_disp, p90_disp).
determine_alert_level(thresholds, mean_disp, p90_disp) ==
    IF p90_disp >= thresholds["emergency"] THEN "emergency"
    ELSE IF p90_disp >= thresholds["warning"] THEN "warning"
    ELSE IF mean_disp >= thresholds["advisory"] THEN "advisory"
    ELSE IF mean_disp >= thresholds["watch"] THEN "watch"
    ELSE "none"

NoLevelCall == [ mean_disp |-> 0, p90_disp |-> 0, level |-> "uncalled" ]

\* A figure that is NaN: a missing value of a column, or a statistic pandas
\* cannot compute.
NaN == -1

\* Largest number of rows of a forecast_results frame.
MaxSamples == 3

\* forecast_results['forecasted_displacement'] columns: 1 to MaxSamples figures.
SampleColumns == UNION { [1 .. n -> DispValues] : n \in 1 .. MaxSamples }

RECURSIVE SumSeq(_)
SumSeq(q) == IF q = << >> THEN 0 ELSE Head(q) + SumSeq(Tail(q))

\* Series.sort_values(): row k holds the value that has fewer than k rows
\* below it and at least k rows at or below it.
sort_values(q) ==
    [ k \in 1 .. Len(q) |->
        CHOOSE v \in { q[j] : j \in 1 .. Len(q) } :
            /\ Cardinality({ j \in 1 .. Len(q) : q[j] < v }) < k
            /\ Cardinality({ j \in 1 .. Len(q) : q[j] <= v }) >= k ]

\* Series.mean().  The figures are multiples of 6000, so the division is exact
\* for every column of up to 6 rows.
SeriesMean(q) == SumSeq(q) \div Len(q)

\* Series.quantile(0.90): linear interpolation at position 0.9 * (n - 1) of the
\* sorted column (exact for the same reason).
SeriesQuantile90(q) ==
    LET sorted == sort_values(q)
        pos10  == 9 * (Len(q) - 1)
        lo     == (pos10 \div 10) + 1
        frac10 == pos10 % 10
    IN  IF frac10 = 0
        THEN sorted[lo]
        ELSE sorted[lo] + (frac10 * (sorted[lo + 1] - sorted[lo])) \div 10

\* should_trigger with the two conditions joined by "or".
should_trigger_or(alert_level, confidence_level) ==
    \/ alert_level \in {"warning", "emergency"}
    \/ confidence_level \in {"high", "medium"}

\* should_trigger of generate_alert_decision.
should_trigger_of(alert_level, confidence_level) ==
    /\ alert_level \in {"warning", "emergency"}
    /\ confidence_level \in {"high", "medium"}

\* The square of cv = std() / (mean() + 1) of _calculate_alert_confidence, in
\* millionths; NaN for a column of one row, whose std() (ddof = 1) is NaN.
\* Each row's deviation from the mean is taken relative to mean + 1, in
\* thousandths, before it is squared.
CvSquared(column) ==
    LET n == Len(column)
        S == SumSeq(column)
        r == [ i \in 1 .. n |->
                 IF S = 0 THEN 0 ELSE (n * column[i] - S) \div ((S + n) \div 1000) ]
    IN  IF n < 2 THEN NaN
        ELSE SumSeq([ i \in 1 .. n |-> r[i] * r[i] ]) \div (n - 1)

\* _calculate_alert_confidence without the final min(1.0, ...).
calculate_alert_confidence_uncapped(column, quality_score) ==
    LET cv2 == CvSquared(column)
    IN  IF cv2 # NaN /\ cv2 < 90000 THEN (quality_score * 11) \div 10
        ELSE IF cv2 # NaN /\ cv2 > 640000 THEN (quality_score * 8) \div 10
        ELSE quality_score

\* _calculate_alert_confidence(forecast_results, quality_score), in units of
\* 1 / Scale: cv < 0.3 and cv > 0.8 are compared on the squares, and both are
\* False for a NaN cv.
calculate_alert_confidence(column, quality_score) ==
    LET cv2 == CvSquared(column)
        confidence ==
            IF cv2 # NaN /\ cv2 < 90000 THEN (quality_score * 11) \div 10
            ELSE IF cv2 # NaN /\ cv2 > 640000 THEN (quality_score * 8) \div 10
            ELSE quality_score
    IN  IF confidence > Scale THEN Scale ELSE confidence

\* Ticks of the clock in a minute: strftime("%Y-%m-%d %H:%M UTC") keeps the
\* minute and drops the rest.
TicksPerMinute == 2

\* str.upper() of an alert level.
Upper(alert_level) ==
    CASE alert_level = "watch"     -> "WATCH"
      [] alert_level = "advisory"  -> "ADVISORY"
      [] alert_level = "warning"   -> "WARNING"
      [] alert_level = "emergency" -> "EMERGENCY"
      [] OTHER                     -> "NONE"

\* _generate_alert_message: the values rendered into the text, the timestamp
\* being datetime.now() at the call.
generate_alert_message(alert_level, mean_disp, p90_disp, now) ==
    [ alert_level |-> Upper(alert_level),
      timestamp   |-> now \div TicksPerMinute,
      mean_disp   |-> mean_disp,
      p90_disp    |-> p90_disp ]

NoMessage == [ alert_level |-> "", timestamp |-> 0, mean_disp |-> 0, p90_disp |-> 0 ]

NoAlertCall ==
    [ mean_disp |-> 0, p90_disp |-> 0, alert_level |-> "uncalled",
      should_trigger |-> FALSE, confidence |-> 0, message |-> NoMessage ]

\* generate_alert_decision(forecast_results, metrics, context) called when the
\* clock reads now: the statistics it takes from the column, and the level,
\* trigger, confidence and message of the AlertDecision.
generate_alert_decision(thresholds, results, m, now) ==
    LET mean_disp   == SeriesMean(results)
        p90_disp    == SeriesQuantile90(results)
        alert_level == determine_alert_level(thresholds, mean_disp, p90_disp)
    IN  [ mean_disp      |-> mean_disp,
          p90_disp       |-> p90_disp,
          alert_level    |-> alert_level,
          should_trigger |-> should_trigger_of(alert_level, m.confidence_level),
          confidence     |-> calculate_alert_confidence(results, m.quality_score),
          message        |-> generate_alert_message(alert_level, mean_disp,
                                                    p90_disp, now) ]

\* A call of generate_alert_decision on the frame and metrics at hand; the
\* history keeps the first two.
GenerateAlertDecision ==
    /\ previous_alert = NoAlertCall
    /\ alert_call' = generate_alert_decision(displacement_alert_levels,
                                             forecast_results, metrics, clock)
    /\ previous_alert' = alert_call
    /\ UNCHANGED << displacement_alert_levels, level_calls, forecast_results,
                    metrics, clock, notAlertVars >>

\* Latest reading of the clock.
MaxClock == 3

\* Time passes.
Tick ==
    /\ clock < MaxClock
    /\ clock' = clock + 1
    /\ UNCHANGED << displacement_alert_levels, level_calls, forecast_results,
                    metrics, alert_call, previous_alert, notAlertVars >>

\* A direct call _determine_alert_level(mean_disp, p90_disp), as the test suite makes.
DetermineAlertLevel(mean_disp, p90_disp) ==
    /\ level_calls' =
          << level_calls[2],
             [ mean_disp |-> mean_disp, p90_disp |-> p90_disp,
               level |-> determine_alert_level(displacement_alert_levels,
                                               mean_disp, p90_disp) ] >>
    /\ UNCHANGED << displacement_alert_levels, forecast_results, metrics,
                    alert_call, previous_alert, clock, notAlertVars >>

AlertIdle ==
    /\ displacement_alert_levels =
          [ watch |-> 6000, advisory |-> 12000, warning |-> 30000, emergency |-> 60000 ]
    /\ level_calls = << NoLevelCall, NoLevelCall >>
    /\ forecast_results = << 0 >>
    /\ metrics = [ confidence_level |-> "high", quality_score |-> (3 * Scale) \div 4 ]
    /\ alert_call = NoAlertCall
    /\ previous_alert = NoAlertCall
    /\ clock = 0

LevelInit ==
    /\ displacement_alert_levels \in [AlertLevelNames -> ThresholdLevels]
    /\ level_calls = << NoLevelCall, NoLevelCall >>
    /\ forecast_results = << 0 >>
    /\ metrics = [ confidence_level |-> "high", quality_score |-> (3 * Scale) \div 4 ]
    /\ alert_call = NoAlertCall
    /\ previous_alert = NoAlertCall
    /\ clock = 0

LevelNext ==
    \E m \in DispValues, p \in DispValues : DetermineAlertLevel(m, p)

\* The four breakpoints in their documented order watch <= ... <= emergency.
OrderedThresholds ==
    { t \in [AlertLevelNames -> ThresholdLevels] :
        /\ t["watch"] <= t["advisory"]
        /\ t["advisory"] <= t["warning"]
        /\ t["warning"] <= t["emergency"] }

AlertInit ==
    /\ displacement_alert_levels \in OrderedThresholds
    /\ level_calls = << NoLevelCall, NoLevelCall >>
    /\ forecast_results \in SampleColumns
    /\ metrics \in [ confidence_level : ConfidenceLevels,
                      quality_score : {(3 * Scale) \div 4} ]
    /\ alert_call = NoAlertCall
    /\ previous_alert = NoAlertCall
    /\ clock = 0

AlertNext == GenerateAlertDecision

VulnInit ==
    /\ disk \in [HazardTypes -> FileStates]
    /\ LET m == load_models(disk)
       IN  /\ flood_model = m.flood_model
           /\ conflict_model = m.conflict_model
           /\ trained = m.trained
    /\ scaler = Unfitted
    /\ loaded_from = disk
    /\ train_calls = {}
    /\ last_predict = NoCall

VulnNext ==
    \/ Construct
    \/ \E d \in DataSets, h \in HazardTypes : Train(d, h)
    \/ \E c \in VulnContexts, h \in HazardTypes : Predict(c, h)

\* The estimator constructed where models_dir holds no model file, and unused.
VulnIdle ==
    /\ disk = [ h \in HazardTypes |-> [ state |-> "missing", model |-> NoModel ] ]
    /\ flood_model = NoModel
    /\ conflict_model = NoModel
    /\ trained = TRUE
    /\ scaler = Unfitted
    /\ loaded_from = disk
    /\ train_calls = {}
    /\ last_predict = NoCall

(***************************************************************************)
(* QualityController                                                       *)
(***************************************************************************)

\* A loaded Hazard: the number of events (len(event_id), also the rows
\* intensity.shape[0]) and whether every stored intensity is zero.
HazardRecords ==
    { [ n_events |-> 0, all_zero |-> TRUE ] }
    \cup [ n_events : {3, 5}, all_zero : BOOLEAN ]

\* A loaded Exposures: rows of gdf, the sum of its value column, and whether
\* gdf has the centr_ attribute.  An empty frame sums to zero.
ExposureRecords ==
    { e \in [ n_records : {0, 2}, value_sum : {0, 6000}, has_centr : BOOLEAN ] :
        e.n_records = 0 => e.value_sum = 0 }

\* validate_inputs without the check of the exposure's value sum.
validate_inputs_no_sum_check(hazard, exp) ==
    IF hazard.n_events = 0
    THEN [ ok |-> FALSE, messages |-> << "Hazard has no events" >> ]
    ELSE IF exp.n_records = 0
    THEN [ ok |-> FALSE, messages |-> << "Exposure has no data" >> ]
    ELSE [ ok |-> TRUE,
           messages |->
              (IF hazard.all_zero THEN << "Hazard intensity is all zeros" >> ELSE << >>)
              \o (IF hazard.n_events < 5 THEN << "Low ensemble size" >> ELSE << >>)
              \o (IF ~exp.has_centr
                  THEN << "Exposure not assigned to centroids" >> ELSE << >>) ]

\* validate_inputs(hazard, exposure) -> (ok, messages).
validate_inputs(hazard, exp) ==
    IF hazard.n_events = 0
    THEN [ ok |-> FALSE, messages |-> << "Hazard has no events" >> ]
    ELSE IF exp.n_records = 0
    THEN [ ok |-> FALSE, messages |-> << "Exposure has no data" >> ]
    ELSE IF exp.value_sum = 0
    THEN [ ok |-> FALSE, messages |-> << "Exposure values sum to zero" >> ]
    ELSE [ ok |-> TRUE,
           messages |->
              (IF hazard.all_zero THEN << "Hazard intensity is all zeros" >> ELSE << >>)
              \o (IF hazard.n_events < 5 THEN << "Low ensemble size" >> ELSE << >>)
              \o (IF ~exp.has_centr
                  THEN << "Exposure not assigned to centroids" >> ELSE << >>) ]

IsNumber(x) == x # NaN

\* pandas reductions skip NaN.
DropNaN(q) == SelectSeq(q, IsNumber)

MaxSeq(q) ==
    CHOOSE v \in { q[j] : j \in 1 .. Len(q) } : \A j \in 1 .. Len(q) : q[j] <= v

\* Series.quantile(pct / 100): linear interpolation at position
\* (pct / 100) * (n - 1) of the sorted column.  The figures are multiples of
\* 1200, so the division is exact.
SeriesQuantile(q, pct) ==
    LET sorted  == sort_values(q)
        pos100  == pct * (Len(q) - 1)
        lo      == (pos100 \div 100) + 1
        frac100 == pos100 % 100
    IN  IF frac100 = 0
        THEN sorted[lo]
        ELSE sorted[lo] + (frac100 * (sorted[lo + 1] - sorted[lo])) \div 100

\* validate_outputs returning warnings + errors.
validate_outputs_warnings_first(column, error_factor) ==
    LET numbers  == DropNaN(column)
        errors   == IF Len(numbers) < Len(column)
                    THEN << "NaN values in forecast output" >> ELSE << >>
        too_high == IF numbers # << >> /\ MaxSeq(numbers) > 5000000
                    THEN << "Very high displacement forecast" >> ELSE << >>
        too_wide == IF /\ numbers # << >>
                       /\ SeriesQuantile(numbers, 95)
                            > error_factor * (SeriesQuantile(numbers, 5) + 1)
                    THEN << "High uncertainty" >> ELSE << >>
        too_few  == IF Len(column) < 100 THEN << "Low sample size" >> ELSE << >>
    IN  [ ok |-> errors = << >>, messages |-> too_high \o too_wide \o too_few \o errors ]

\* validate_outputs(forecast_results) -> (ok, messages): errors first.
validate_outputs(column, error_factor) ==
    LET numbers  == DropNaN(column)
        errors   == IF Len(numbers) < Len(column)
                    THEN << "NaN values in forecast output" >> ELSE << >>
        too_high == IF numbers # << >> /\ MaxSeq(numbers) > 5000000
                    THEN << "Very high displacement forecast" >> ELSE << >>
        too_wide == IF /\ numbers # << >>
                       /\ SeriesQuantile(numbers, 95)
                            > error_factor * (SeriesQuantile(numbers, 5) + 1)
                    THEN << "High uncertainty" >> ELSE << >>
        too_few  == IF Len(column) < 100 THEN << "Low sample size" >> ELSE << >>
    IN  [ ok |-> errors = << >>, messages |-> errors \o too_high \o too_wide \o too_few ]

Min(a, b) == IF a <= b THEN a ELSE b

Max(a, b) == IF a >= b THEN a ELSE b

\* calculate_quality_score with the warning penalty capped at 0.1.
calculate_quality_score_one_step(hazard_quality, model_confidence, data_completeness, n_warnings) ==
    LET base_score      == (hazard_quality + model_confidence + data_completeness) \div 3
        warning_penalty == Min((Scale \div 10) * n_warnings, Scale \div 10)
    IN  Max(0, base_score - warning_penalty)

\* calculate_quality_score with the warning penalty not capped.
calculate_quality_score_uncapped(hazard_quality, model_confidence, data_completeness, n_warnings) ==
    LET base_score      == (hazard_quality + model_confidence + data_completeness) \div 3
        warning_penalty == (Scale \div 10) * n_warnings
    IN  Max(0, base_score - warning_penalty)

\* calculate_quality_score(hazard_quality, model_confidence, data_completeness,
\* n_warnings), in units of 1 / Scale.
calculate_quality_score(hazard_quality, model_confidence, data_completeness, n_warnings) ==
    LET base_score      == (hazard_quality + model_confidence + data_completeness) \div 3
        warning_penalty == Min((Scale \div 10) * n_warnings, (3 * Scale) \div 10)
    IN  Max(0, base_score - warning_penalty)

(***************************************************************************)
(* QualityController called on its own: one call of one of its methods,    *)
(* on arguments drawn from the sets below.                                 *)
(***************************************************************************)

\* Most events of a hazard handed to validate_inputs.
MaxEvents == 6

\* Hazards handed to validate_inputs; np.all of no intensities is True.
QcHazards ==
    { h \in [ n_events : 0 .. MaxEvents, all_zero : BOOLEAN ] :
        h.n_events = 0 => h.all_zero }

\* Exposures handed to validate_inputs.
QcExposures ==
    { e \in [ n_records : {0, 1, 2}, value_sum : {0, 6000}, has_centr : BOOLEAN ] :
        e.n_records = 0 => e.value_sum = 0 }

\* config.validation.max_forecast_error_factor.
ErrorFactors == {10, 100}

\* Figures of a forecasted_displacement column.
QcValues == {0, 6000, 90000, 6000000, 6000000 + 6000, NaN}

\* Longest pattern a column is made of.
MaxPattern == 2

\* How often a column repeats its pattern: columns of 1 to 2 * 51 rows, on
\* both sides of the 100 rows validate_outputs asks for.
Repeats == {1, 50, 51}

\* The column made of k copies of pattern.
Repeat(pattern, k) ==
    [ i \in 1 .. k * Len(pattern) |-> pattern[((i - 1) % Len(pattern)) + 1] ]

QcColumns ==
    { Repeat(p, k) : p \in UNION { [1 .. n -> QcValues] : n \in 1 .. MaxPattern },
                     k \in Repeats }

\* Quality inputs in [0, 1].
QualityValues == {0, 2500, 5000, 7500, 8000, 9000, Scale}

\* Most warnings handed to calculate_quality_score.
MaxWarnings == 5

NoInputsCall ==
    [ hazard |-> [ n_events |-> 0, all_zero |-> TRUE ],
      exposure |-> [ n_records |-> 0, value_sum |-> 0, has_centr |-> FALSE ],
      called |-> FALSE, ok |-> FALSE, messages |-> << >> ]

NoOutputsCall ==
    [ column |-> << >>, error_factor |-> 0,
      called |-> FALSE, ok |-> FALSE, messages |-> << >> ]

NoScoreCall ==
    [ hazard_quality |-> 0, model_confidence |-> 0, data_completeness |-> 0,
      n_warnings |-> 0, called |-> FALSE, score |-> 0 ]

QcUncalled ==
    /\ inputs_call = NoInputsCall
    /\ outputs_call = NoOutputsCall
    /\ score_call = NoScoreCall

\* quality_control.validate_inputs(hazard, exposure).
ValidateInputs(hazard, exp) ==
    /\ QcUncalled
    /\ LET v == validate_inputs(hazard, exp)
       IN  inputs_call' = [ hazard |-> hazard, exposure |-> exp, called |-> TRUE,
                            ok |-> v.ok, messages |-> v.messages ]
    /\ UNCHANGED << outputs_call, score_call, notQcVars >>

\* quality_control.validate_outputs(forecast_results).
ValidateOutputs(column, error_factor) ==
    /\ QcUncalled
    /\ LET v == validate_outputs(column, error_factor)
       IN  outputs_call' = [ column |-> column, error_factor |-> error_factor,
                             called |-> TRUE, ok |-> v.ok, messages |-> v.messages ]
    /\ UNCHANGED << inputs_call, score_call, notQcVars >>

\* quality_control.calculate_quality_score(...).
CalculateQualityScore(hazard_quality, model_confidence, data_completeness, n_warnings) ==
    /\ QcUncalled
    /\ score_call' =
          [ hazard_quality |-> hazard_quality, model_confidence |-> model_confidence,
            data_completeness |-> data_completeness, n_warnings |-> n_warnings,
            called |-> TRUE,
            score |-> calculate_quality_score(hazard_quality, model_confidence,
                                              data_completeness, n_warnings) ]
    /\ UNCHANGED << inputs_call, outputs_call, notQcVars >>

QcInit == QcUncalled

QcIdle == QcUncalled

QcNext ==
    \/ \E hazard \in QcHazards, exp \in QcExposures : ValidateInputs(hazard, exp)
    \/ \E column \in QcColumns, error_factor \in ErrorFactors :
          ValidateOutputs(column, error_factor)
    \/ \E h, m, d \in QualityValues, n \in 0 .. MaxWarnings :
          CalculateQualityScore(h, m, d, n)

(***************************************************************************)
(* ProductionForecastEngine.run_forecast                                   *)
(*                                                                         *)
(* _load_hazard, _load_exposure and _calculate_impact are placeholders for *)
(* the external hazard, exposure and impact collaborators: what they       *)
(* return is an input of the run.                                          *)
(***************************************************************************)

\* Largest config.uncertainty.n_samples.
MaxRunSamples == 1

\* Figures _calculate_impact may return: people displaced, or NaN.
ImpactValues == {6000, 6000000, NaN}

AlertChannels == {"email", "sms", "webhook"}

\* The order in which run_forecast fills, and so iterates, the hazards dict.
HazardOrder(types) ==
    (IF "flood" \in types THEN << "flood" >> ELSE << >>)
    \o (IF "conflict" \in types THEN << "conflict" >> ELSE << >>)

NoMetrics == [ quality_score |-> 0, confidence_level |-> "None", n_warnings |-> 0 ]

Step(op, arg) == [ op |-> op, arg |-> arg ]

\* Steps 1 and 2: _load_hazard for each requested type, then _load_exposure.
RunLoad ==
    /\ run_pc = "load"
    /\ hazards' = hazard_files
    /\ pending' = HazardOrder(hazard_types)
    /\ run_pc' = IF hazard_types = {} THEN "compile" ELSE "validate_inputs"
    /\ steps' = steps \o [ i \in 1 .. Len(HazardOrder(hazard_types)) |->
                             Step("load_hazard", HazardOrder(hazard_types)[i]) ]
                      \o << Step("load_exposure", "") >>
    /\ UNCHANGED << runInputs, impacts, results_df, output_warnings, run_metrics,
                    run_alert, saved, sent, notRunVars >>

\* Step 3 with the failed validation only logged.
RunValidateInputs_no_raise ==
    /\ run_pc = "validate_inputs"
    /\ steps' = Append(steps, Step("validate_inputs", Head(pending)))
    /\ IF Tail(pending) = << >>
       THEN run_pc' = "calculate_impact" /\ pending' = HazardOrder(hazard_types)
       ELSE run_pc' = run_pc /\ pending' = Tail(pending)
    /\ UNCHANGED << runInputs, hazards, impacts, results_df, output_warnings,
                    run_metrics, run_alert, saved, sent, notRunVars >>

\* Step 3, one iteration: validate_inputs on the next hazard, raising
\* ValueError when it is not ok; after the last one the impact loop starts.
RunValidateInputs ==
    /\ run_pc = "validate_inputs"
    /\ LET v == validate_inputs(hazards[Head(pending)], exposure)
       IN  IF ~v.ok
           THEN /\ run_pc' = "raised"
                /\ steps' = steps \o << Step("validate_inputs", Head(pending)),
                                        Step("raise", "Input validation failed") >>
                /\ UNCHANGED pending
           ELSE /\ steps' = Append(steps, Step("validate_inputs", Head(pending)))
                /\ IF Tail(pending) = << >>
                   THEN /\ run_pc' = "calculate_impact"
                        /\ pending' = HazardOrder(hazard_types)
                   ELSE /\ run_pc' = run_pc
                        /\ pending' = Tail(pending)
    /\ UNCHANGED << runInputs, hazards, impacts, results_df, output_warnings,
                    run_metrics, run_alert, saved, sent, notRunVars >>

\* Step 4, one iteration: _calculate_impact for the next hazard returns a
\* column of n_samples displacement figures.
RunCalculateImpact(column) ==
    /\ run_pc = "calculate_impact"
    /\ impacts' = [ k \in DOMAIN impacts \cup {Head(pending)} |->
                      IF k = Head(pending) THEN column ELSE impacts[k] ]
    /\ steps' = Append(steps, Step("calculate_impact", Head(pending)))
    /\ pending' = Tail(pending)
    /\ run_pc' = IF Tail(pending) # << >> THEN run_pc
                 ELSE IF Cardinality(DOMAIN hazards) > 1 THEN "combine"
                 ELSE "compile"
    /\ UNCHANGED << runInputs, hazards, results_df, output_warnings, run_metrics,
                    run_alert, saved, sent, notRunVars >>

\* (flood + conflict) * 0.8, NaN where either is NaN.
CombinedValue(f, c) == IF f = NaN \/ c = NaN THEN NaN ELSE ((f + c) * 8) \div 10

\* Step 5: _combine_multi_hazard_impacts, stored as impacts['combined'].
RunCombine ==
    /\ run_pc = "combine"
    /\ impacts' = [ k \in DOMAIN impacts \cup {"combined"} |->
                      IF k = "combined"
                      THEN [ i \in 1 .. n_samples |->
                               CombinedValue(impacts["flood"][i], impacts["conflict"][i]) ]
                      ELSE impacts[k] ]
    /\ steps' = Append(steps, Step("combine", ""))
    /\ run_pc' = "compile"
    /\ UNCHANGED << runInputs, hazards, pending, results_df, output_warnings,
                    run_metrics, run_alert, saved, sent, notRunVars >>

\* pd.concat of the impact frames in the dict's order.
Concat(imp) ==
    (IF "flood" \in DOMAIN imp THEN imp["flood"] ELSE << >>)
    \o (IF "conflict" \in DOMAIN imp THEN imp["conflict"] ELSE << >>)
    \o (IF "combined" \in DOMAIN imp THEN imp["combined"] ELSE << >>)

\* Step 6: _compile_results; pd.concat of no frames raises ValueError.
RunCompile ==
    /\ run_pc = "compile"
    /\ IF DOMAIN impacts = {}
       THEN /\ run_pc' = "raised"
            /\ steps' = steps \o << Step("compile", ""),
                                    Step("raise", "No objects to concatenate") >>
            /\ UNCHANGED results_df
       ELSE /\ results_df' = Concat(impacts)
            /\ steps' = Append(steps, Step("compile", ""))
            /\ run_pc' = "validate_outputs"
    /\ UNCHANGED << runInputs, hazards, pending, impacts, output_warnings,
                    run_metrics, run_alert, saved, sent, notRunVars >>

\* Step 7 with the failed validation only logged.
RunValidateOutputs_no_raise ==
    /\ run_pc = "validate_outputs"
    /\ output_warnings' = validate_outputs(results_df, max_forecast_error_factor).messages
    /\ steps' = Append(steps, Step("validate_outputs", ""))
    /\ run_pc' = "metrics"
    /\ UNCHANGED << runInputs, hazards, pending, impacts, results_df, run_metrics,
                    run_alert, saved, sent, notRunVars >>

\* Step 7: validate_outputs, raising ValueError when it is not ok.
RunValidateOutputs ==
    /\ run_pc = "validate_outputs"
    /\ LET v == validate_outputs(results_df, max_forecast_error_factor)
       IN  IF ~v.ok
           THEN /\ run_pc' = "raised"
                /\ steps' = steps \o << Step("validate_outputs", ""),
                                        Step("raise", "Output validation failed") >>
                /\ UNCHANGED output_warnings
           ELSE /\ output_warnings' = v.messages
                /\ steps' = Append(steps, Step("validate_outputs", ""))
                /\ run_pc' = "metrics"
    /\ UNCHANGED << runInputs, hazards, pending, impacts, results_df, run_metrics,
                    run_alert, saved, sent, notRunVars >>

\* The confidence level with 'medium' starting at 0.55.
ConfidenceOf_late_medium(quality_score) ==
    IF 100 * quality_score >= 75 * Scale THEN "high"
    ELSE IF 100 * quality_score >= 55 * Scale THEN "medium"
    ELSE "low"

\* The confidence level _calculate_metrics gives a quality score.
ConfidenceOf(quality_score) ==
    IF 100 * quality_score >= 75 * Scale THEN "high"
    ELSE IF 100 * quality_score >= 50 * Scale THEN "medium"
    ELSE "low"

\* Step 8: _calculate_metrics with the warnings of validate_outputs.
RunCalculateMetrics ==
    /\ run_pc = "metrics"
    /\ LET quality_score ==
              calculate_quality_score((80 * Scale) \div 100, (75 * Scale) \div 100,
                                      (90 * Scale) \div 100, Len(output_warnings))
       IN  run_metrics' = [ quality_score    |-> quality_score,
                            confidence_level |-> ConfidenceOf(quality_score),
                            n_warnings       |-> Len(output_warnings) ]
    /\ steps' = Append(steps, Step("calculate_metrics", ""))
    /\ run_pc' = "alert"
    /\ UNCHANGED << runInputs, hazards, pending, impacts, results_df, output_warnings,
                    run_alert, saved, sent, notRunVars >>

\* Step 9: generate_alert_decision on the compiled frame and the metrics.
RunGenerateAlert ==
    /\ run_pc = "alert"
    /\ run_alert' = generate_alert_decision(displacement_alert_levels, results_df,
                                            run_metrics, clock)
    /\ steps' = Append(steps, Step("generate_alert_decision", ""))
    /\ run_pc' = "save"
    /\ UNCHANGED << runInputs, hazards, pending, impacts, results_df, output_warnings,
                    run_metrics, saved, sent, notRunVars >>

\* Step 10: _save_results writes results, metrics and the alert.
RunSaveResults ==
    /\ run_pc = "save"
    /\ saved' = run_alert
    /\ steps' = Append(steps, Step("save_results", ""))
    /\ run_pc' = "distribute"
    /\ UNCHANGED << runInputs, hazards, pending, impacts, results_df, output_warnings,
                    run_metrics, run_alert, sent, notRunVars >>

\* distribute_alert without the should_trigger guard.
distribute_alert_unguarded(alert, channels) == channels

\* distribute_alert(alert): nothing unless should_trigger, else one send per
\* enabled channel.
distribute_alert(alert, channels) ==
    IF ~alert.should_trigger THEN {} ELSE channels

\* Step 11: distribute_alert, then return.
RunDistributeAlert ==
    /\ run_pc = "distribute"
    /\ sent' = distribute_alert(run_alert, alert_channels)
    /\ steps' = Append(steps, Step("distribute_alert", ""))
    /\ run_pc' = "done"
    /\ UNCHANGED << runInputs, hazards, pending, impacts, results_df, output_warnings,
                    run_metrics, run_alert, saved, notRunVars >>

RunLocalsInit ==
    /\ run_pc = "load"
    /\ hazards = << >>
    /\ pending = << >>
    /\ impacts = << >>
    /\ results_df = << >>
    /\ output_warnings = << >>
    /\ run_metrics = NoMetrics
    /\ run_alert = NoAlertCall
    /\ saved = NoAlertCall
    /\ sent = {}
    /\ steps = << >>

\* An engine whose run_forecast is about to be called.
RunInit ==
    /\ hazard_types \in SUBSET HazardTypes
    /\ hazard_files \in [hazard_types -> HazardRecords]
    /\ exposure \in ExposureRecords
    /\ n_samples \in 1 .. MaxRunSamples
    /\ max_forecast_error_factor \in ErrorFactors
    /\ alert_channels \in SUBSET AlertChannels
    /\ RunLocalsInit

\* An engine whose run_forecast is never called.
RunIdle ==
    /\ hazard_types = {}
    /\ hazard_files = << >>
    /\ exposure = [ n_records |-> 0, value_sum |-> 0, has_centr |-> FALSE ]
    /\ n_samples = 1
    /\ max_forecast_error_factor = 10
    /\ alert_channels = {}
    /\ RunLocalsInit

RunNext ==
    \/ RunLoad
    \/ RunValidateInputs
    \/ \E column \in [1 .. n_samples -> ImpactValues] : RunCalculateImpact(column)
    \/ RunCombine
    \/ RunCompile
    \/ RunValidateOutputs
    \/ RunCalculateMetrics
    \/ RunGenerateAlert
    \/ RunSaveResults
    \/ RunDistributeAlert

\* Quality scores handed to generate_alert_decision: in [0, 1], on both sides
\* of 1 / 1.1.
ScoreValues == {0, Scale \div 2, (9 * Scale) \div 10, (95 * Scale) \div 100, Scale}

\* generate_alert_decision under the default thresholds of config.py, called
\* up to twice on one frame and one ForecastMetrics while time passes.
DecisionInit ==
    /\ displacement_alert_levels =
          [ watch |-> 6000, advisory |-> 12000, warning |-> 30000, emergency |-> 60000 ]
    /\ level_calls = << NoLevelCall, NoLevelCall >>
    /\ forecast_results \in SampleColumns
    /\ metrics \in { m \in [ confidence_level : ConfidenceLevels,
                              quality_score : ScoreValues ] :
                       m.confidence_level = ConfidenceOf(m.quality_score) }
    /\ alert_call = NoAlertCall
    /\ previous_alert = NoAlertCall
    /\ clock = 0

DecisionNext == GenerateAlertDecision \/ Tick

(***************************************************************************)
(* MultiHazardInteraction                                                  *)
(*                                                                         *)
(* Impacts and normalized intensities are fractions in units of 1 / Scale; *)
(* raw intensities are in hundredths of the hazard's unit.  Every product  *)
(* of two fractions is rounded down to the unit.                           *)
(***************************************************************************)

\* Longest input series of a combine_hazards call.
MaxSeries == 3

\* One sample of the four input series: flood depth in hundredths of a metre,
\* conflict events in hundredths, and the two impacts.
Sample(flood_intensity, conflict_intensity, flood_impact, conflict_impact) ==
    [ flood_intensity |-> flood_intensity, conflict_intensity |-> conflict_intensity,
      impacts |-> << flood_impact, conflict_impact >> ]

\* The samples a series is made of: both hazards at full strength (with the
\* impacts of the test suite, equal impacts, impacts near the ceiling and no
\* impact), a flood at a tenth and a conflict at four tenths of full strength,
\* a conflict at a fifteenth, either hazard absent, and at full strength a
\* total displacement and one at the ceiling.
SampleInputs ==
    { Sample(150, 3000, 4000, 5000), Sample(150, 3000, 4000, 4000),
      Sample(150, 3000, 9000, 9400), Sample(150, 3000, 0, 0),
      Sample(15, 1200, 5000, 2000),  Sample(150, 200, 1000, 3000),
      Sample(0, 3000, 5000, 2000),   Sample(0, 0, 1000, 3000),
      Sample(150, 3000, Scale, 2000), Sample(150, 3000, 9500, 0) }

CombineMethods == {"simple_max", "weighted_sum", "sophisticated"}

\* The infrastructure_quality and poverty_rate a context may carry here.
CombineContexts ==
    { [BaseContext EXCEPT !.infrastructure_quality = q, !.poverty_rate = r] :
        q \in {2500, 5000}, r \in {4500, 5500} }

\* A product of two fractions.
Mul(a, b) == (a * b) \div Scale

\* np.clip leaving every value as it is.
Clip_identity(x, lo, hi) == x

\* np.clip(x, lo, hi).
Clip(x, lo, hi) == IF x < lo THEN lo ELSE IF x > hi THEN hi ELSE x

\* np.mean of a series.
MeanSeq(q) == SumSeq(q) \div Len(q)

\* intensity / (np.max(intensity) + 1e-10), elementwise: the 1e-10 only
\* matters when the maximum is 0, where every quotient is 0.
Normalize(q) ==
    LET m == MaxSeq(q)
    IN  [ i \in 1 .. Len(q) |-> IF m = 0 THEN 0 ELSE (q[i] * Scale) \div m ]

\* method == 'simple_max' returning the flood impact alone.
simple_max_flood_only(flood_impact, conflict_impact) ==
    [ combined |-> flood_impact,
      metrics  |-> [ method |-> "max", interaction |-> 0,
                     compounding_factor |-> 0, cascade_flood_to_conflict |-> 0,
                     cascade_conflict_to_flood |-> 0 ] ]

\* method == 'simple_max'.
simple_max(flood_impact, conflict_impact) ==
    [ combined |-> [ i \in 1 .. Len(flood_impact) |->
                       Max(flood_impact[i], conflict_impact[i]) ],
      metrics  |-> [ method |-> "max", interaction |-> 0,
                     compounding_factor |-> 0, cascade_flood_to_conflict |-> 0,
                     cascade_conflict_to_flood |-> 0 ] ]

\* method == 'weighted_sum'.
weighted_sum(flood_intensity, conflict_intensity, flood_impact, conflict_impact) ==
    LET flood_weight(i) ==
            IF flood_intensity[i] + conflict_intensity[i] = 0 THEN 0
            ELSE (flood_intensity[i] * Scale)
                    \div (flood_intensity[i] + conflict_intensity[i])
    IN  [ combined |-> [ i \in 1 .. Len(flood_impact) |->
                           Mul(flood_weight(i), flood_impact[i])
                           + Mul(Scale - flood_weight(i), conflict_impact[i]) ],
          metrics  |-> [ method |-> "weighted", interaction |-> Scale \div 10,
                         compounding_factor |-> 0, cascade_flood_to_conflict |-> 0,
                         cascade_conflict_to_flood |-> 0 ] ]

\* The final np.clip(combined, 0, 0.95) of _sophisticated_combination.
sophisticated_clip(x) == Clip(x, 0, (95 * Scale) \div 100)

\* interaction_base with no interaction at all.
adjusted_interaction_none(interaction, context) == Scale

\* interaction_base: the configured coefficient, times 1.2 under weak
\* infrastructure and times 1.15 under high poverty.
adjusted_interaction(interaction, context) ==
    LET base1 == IF context.infrastructure_quality < (3 * Scale) \div 10
                 THEN (interaction * 12) \div 10 ELSE interaction
    IN  IF context.poverty_rate > (5 * Scale) \div 10
        THEN (base1 * 115) \div 100 ELSE base1

\* _sophisticated_combination on the arguments a, with the configured
\* flood_conflict_interaction (metrics.interaction is the dictionary's
\* base_interaction).
sophisticated_combination(a, interaction) ==
    LET flood_intensity    == a.flood_intensity
        conflict_intensity == a.conflict_intensity
        flood_impact       == a.flood_impact
        conflict_impact    == a.conflict_impact
        context            == a.context
        n             == Len(flood_impact)
        flood_norm    == Normalize(flood_intensity)
        conflict_norm == Normalize(conflict_intensity)
        both_present(i) == flood_norm[i] > Scale \div 10 /\ conflict_norm[i] > Scale \div 10
        any_present   == \E i \in 1 .. n : both_present(i)
        interaction_base == adjusted_interaction(interaction, context)
        \* once any sample has both hazards present, the factor array is
        \* computed for, and applied to, every sample
        compounding_factor(i) ==
            IF any_present
            THEN Scale + Mul(Mul(interaction_base - Scale, flood_norm[i]),
                             conflict_norm[i])
            ELSE Scale
        flood_mean    == MeanSeq(flood_norm)
        conflict_mean == MeanSeq(conflict_norm)
        cascade_f2c   == IF flood_mean > Scale \div 2
                         THEN Mul((15 * flood_mean) \div 100,
                                  Scale - context.infrastructure_quality)
                         ELSE 0
        cascade_c2f   == IF conflict_mean > Scale \div 2
                         THEN (10 * conflict_mean) \div 100
                         ELSE 0
        raw(i) == Mul(Max(flood_impact[i], conflict_impact[i]), compounding_factor(i))
                  + (3 * Mul(cascade_f2c, conflict_impact[i])) \div 10
                  + (2 * Mul(cascade_c2f, flood_impact[i])) \div 10
    IN  [ combined |-> [ i \in 1 .. n |-> sophisticated_clip(raw(i)) ],
          metrics  |-> [ method |-> "sophisticated", interaction |-> interaction,
                         compounding_factor |->
                            MeanSeq([ i \in 1 .. n |-> compounding_factor(i) ]),
                         cascade_flood_to_conflict |-> cascade_f2c,
                         cascade_conflict_to_flood |-> cascade_c2f ] ]

\* combine_hazards(flood_intensity, conflict_intensity, flood_impact,
\* conflict_impact, context, method).
combine_hazards(a, interaction) ==
    IF a.method = "simple_max"
    THEN simple_max(a.flood_impact, a.conflict_impact)
    ELSE IF a.method = "weighted_sum"
    THEN weighted_sum(a.flood_intensity, a.conflict_intensity,
                      a.flood_impact, a.conflict_impact)
    ELSE sophisticated_combination(a, interaction)

\* The arguments of a call whose series are the samples q.
CombineArgs(q, context, method) ==
    [ flood_intensity    |-> [ i \in 1 .. Len(q) |-> q[i].flood_intensity ],
      conflict_intensity |-> [ i \in 1 .. Len(q) |-> q[i].conflict_intensity ],
      flood_impact       |-> [ i \in 1 .. Len(q) |-> q[i].impacts[1] ],
      conflict_impact    |-> [ i \in 1 .. Len(q) |-> q[i].impacts[2] ],
      context            |-> context,
      method             |-> method ]

NoCombineResult ==
    [ combined |-> << >>,
      metrics  |-> [ method |-> "uncalled", interaction |-> 0,
                     compounding_factor |-> 0, cascade_flood_to_conflict |-> 0,
                     cascade_conflict_to_flood |-> 0 ] ]

\* One call of combine_hazards on the arguments at hand.
CombineHazards ==
    /\ combine_result = NoCombineResult
    /\ combine_result' = combine_hazards(combine_args, flood_conflict_interaction)
    /\ UNCHANGED << flood_conflict_interaction, combine_args, notCombineVars >>

CombineInit ==
    /\ flood_conflict_interaction \in {Scale, (13 * Scale) \div 10}
    /\ combine_args \in
          { CombineArgs(q, c, m) :
              q \in UNION { [1 .. n -> SampleInputs] : n \in 1 .. MaxSeries },
              c \in CombineContexts, m \in CombineMethods }
    /\ combine_result = NoCombineResult

CombineIdle ==
    /\ flood_conflict_interaction = (13 * Scale) \div 10
    /\ combine_args = CombineArgs(<< >>, BaseContext, "sophisticated")
    /\ combine_result = NoCombineResult

CombineNext == CombineHazards

(***************************************************************************)
(* AdaptiveImpactFunction                                                  *)
(*                                                                         *)
(* Fractions (mdd, paa, the adjustments, the arguments of exp) are in      *)
(* units of 1 / Scale.  Intensities, thresholds and half-impact values are *)
(* in units of 1 / IntensityUnit(hazard_type) of the hazard's unit.  Every *)
(* quotient is rounded down, so a curve value is within a few units of the *)
(* floating-point value.                                                   *)
(***************************************************************************)

\* Units per metre of flood depth and per conflict event.
IntensityUnit(hazard_type) == IF hazard_type = "flood" THEN Scale ELSE 100

\* np.arange(0, 6, 0.05) and np.arange(0, 250, 2).
GridStep(hazard_type) ==
    IF hazard_type = "flood" THEN (5 * IntensityUnit("flood")) \div 100
    ELSE 2 * IntensityUnit("conflict")

GridLen(hazard_type) == IF hazard_type = "flood" THEN 120 ELSE 125

Grid(hazard_type) ==
    [ i \in 1 .. GridLen(hazard_type) |-> (i - 1) * GridStep(hazard_type) ]

\* The fields of CompoundingFactors.
CompoundingFlags ==
    { "has_recent_flood", "has_recent_conflict", "has_displacement_camp",
      "is_rainy_season", "is_harvest_season", "market_access_disrupted",
      "healthcare_access_limited" }

\* CompoundingFactors with the flags of S set and the others at their default.
CompoundingFactors(S) == [ f \in CompoundingFlags |-> f \in S ]

\* a * pct / 100.
Pct(a, pct) == (a * pct) \div 100

\* _adjust_for_context with the lower multiplier of every field applied
\* whatever the field's value.
adjust_for_context_unconditional(intensity_half, context) ==
    Mul(intensity_half, Pct(Pct(Pct(Pct(Scale, 85), 90), 95), 85))

\* _adjust_for_context with the comparison values themselves counted in.
adjust_for_context_inclusive(intensity_half, context) ==
    LET a1 == IF context.infrastructure_quality <= (3 * Scale) \div 10
              THEN Pct(Scale, 85)
              ELSE IF context.infrastructure_quality >= (7 * Scale) \div 10
              THEN Pct(Scale, 115) ELSE Scale
        a2 == IF context.early_warning_coverage >= (7 * Scale) \div 10
              THEN Pct(a1, 125)
              ELSE IF context.early_warning_coverage <= (3 * Scale) \div 10
              THEN Pct(a1, 90) ELSE a1
        a3 == IF context.urban_rural = "urban" THEN Pct(a2, 110)
              ELSE IF context.urban_rural = "rural" THEN Pct(a2, 95) ELSE a2
        a4 == IF context.poverty_rate >= (5 * Scale) \div 10
              THEN Pct(a3, 85) ELSE a3
    IN  Mul(intensity_half, a4)

\* _adjust_for_context(intensity_half, context).
adjust_for_context(intensity_half, context) ==
    LET a1 == IF context.infrastructure_quality < (3 * Scale) \div 10
              THEN Pct(Scale, 85)
              ELSE IF context.infrastructure_quality > (7 * Scale) \div 10
              THEN Pct(Scale, 115) ELSE Scale
        a2 == IF context.early_warning_coverage > (7 * Scale) \div 10
              THEN Pct(a1, 125)
              ELSE IF context.early_warning_coverage < (3 * Scale) \div 10
              THEN Pct(a1, 90) ELSE a1
        a3 == IF context.urban_rural = "urban" THEN Pct(a2, 110)
              ELSE IF context.urban_rural = "rural" THEN Pct(a2, 95) ELSE a2
        a4 == IF context.poverty_rate > (5 * Scale) \div 10
              THEN Pct(a3, 85) ELSE a3
    IN  Mul(intensity_half, a4)

\* _adjust_for_compounding(intensity_half, compounding).
adjust_for_compounding(intensity_half, compounding, hazard_type) ==
    LET a1 == IF compounding.has_recent_flood THEN Pct(Scale, 80) ELSE Scale
        a2 == IF compounding.has_recent_conflict THEN Pct(a1, 75) ELSE a1
        a3 == IF compounding.has_displacement_camp THEN Pct(a2, 70) ELSE a2
        a4 == IF compounding.is_rainy_season /\ hazard_type = "flood"
              THEN Pct(a3, 85) ELSE a3
        a5 == IF compounding.is_harvest_season THEN Pct(a4, 110) ELSE a4
        a6 == IF compounding.market_access_disrupted THEN Pct(a5, 90) ELSE a5
        a7 == IF compounding.healthcare_access_limited THEN Pct(a6, 85) ELSE a6
    IN  Mul(intensity_half, a7)

\* exp(-k) for whole k, to the unit.
ExpNegWhole == << 3679, 1353, 498, 183, 67, 25, 9, 3, 1 >>

\* Terms of the series of exp(-f) that are kept: the first one left out is
\* below a quarter of the unit for 0 <= f < 1.
SeriesTerms == 7

\* The terms k, k+1, ... of the series of exp(-f), 0 <= f < 1, nested:
\* 1 - f/k * (1 - f/(k+1) * ( ... )).
RECURSIVE ExpSeries(_, _)
ExpSeries(f, k) ==
    IF k > SeriesTerms THEN Scale
    ELSE Scale - (f * ExpSeries(f, k + 1)) \div (Scale * k)

\* np.exp(-t) for t >= 0.
ExpNeg(t) ==
    LET k == t \div Scale
        e == ExpSeries(t % Scale, 1)
    IN  IF k = 0 THEN e
        ELSE IF k > Len(ExpNegWhole) THEN 0
        ELSE Mul(ExpNegWhole[k], e)

\* 1 / (1 + np.exp(-z)), where z = sign * magnitude.
Sigmoid(negative, magnitude) ==
    LET e == ExpNeg(magnitude)
    IN  IF negative THEN (e * Scale) \div (Scale + e)
        ELSE (Scale * Scale) \div (Scale + e)

\* high_intensity_mask = intensity > intensity_half * 2.
high_intensity_mask(x, intensity_half) == x > 2 * intensity_half

\* One element of _create_impact_curve(intensity, threshold, intensity_half,
\* context): mdd at the grid intensity x, whose largest grid value is x_max.
impact_at(x, x_max, threshold, intensity_half, context, hazard_type) ==
    LET steepness == IF hazard_type = "flood" THEN 5 ELSE 3
        ratio   == ((IF x < intensity_half THEN intensity_half - x
                     ELSE x - intensity_half) * Scale) \div intensity_half
        sigmoid == Sigmoid(x < intensity_half, steepness * ratio)
        \* mdd[intensity < threshold] = 0
        base    == IF x < threshold THEN 0 ELSE sigmoid
        \* low intensity regime: threshold <= x < intensity_half * 0.5
        low     == IF x >= threshold /\ 2 * x < intensity_half
                   THEN Mul(base, Scale \div 2
                                  + ((x - threshold) * Scale)
                                       \div (intensity_half - 2 * threshold))
                   ELSE base
        \* high intensity regime: assigned whatever was there before
        high    == IF high_intensity_mask(x, intensity_half)
                   THEN Pct(Scale, 85)
                        + Pct(Scale - ExpNeg(((x - 2 * intensity_half) * Scale)
                                                \div intensity_half), 14)
                   ELSE low
        warned  == IF context.early_warning_coverage > (7 * Scale) \div 10
                   THEN Mul(high, Pct(Scale, 85) + Pct((x * Scale) \div x_max, 15))
                   ELSE high
    IN  Clip(warned, 0, Pct(Scale, 95))

\* _create_impact_curve.
create_impact_curve(intensity, threshold, intensity_half, context, hazard_type) ==
    [ i \in 1 .. Len(intensity) |->
        impact_at(intensity[i], intensity[Len(intensity)], threshold,
                  intensity_half, context, hazard_type) ]

\* _create_paa_curve(intensity, context).
create_paa_curve(intensity, context, hazard_type) ==
    LET unit == IntensityUnit(hazard_type)
        paa(x) ==
            IF hazard_type = "flood"
            THEN Pct(Scale, 30) + Pct(Scale - ExpNeg((2 * x * Scale) \div unit), 70)
            ELSE IF context.population_density > 500
            THEN Pct(Scale, 50) + Pct(Scale - ExpNeg((x * Scale) \div (20 * unit)), 50)
            ELSE Pct(Scale, 70) + Pct(Scale - ExpNeg((x * Scale) \div (30 * unit)), 30)
    IN  [ i \in 1 .. Len(intensity) |-> Clip(paa(intensity[i]), Scale \div 10, Scale) ]

\* create_contextual_impact_function(context, compounding, intensity_half)
\* of an AdaptiveImpactFunction for hazard_type, with the two thresholds of
\* config.forecast.
create_contextual_impact_function(a, flood_thresh, conflict_thresh) ==
    LET adjusted_half ==
            adjust_for_compounding(adjust_for_context(a.intensity_half, a.context),
                                   a.compounding, a.hazard_type)
        intensity == Grid(a.hazard_type)
        intensity_thresh == IF a.hazard_type = "flood" THEN flood_thresh
                            ELSE conflict_thresh
    IN  [ haz_type       |-> IF a.hazard_type = "flood" THEN "FL" ELSE "CF",
          intensity_unit |-> IF a.hazard_type = "flood" THEN "m" ELSE "events",
          adjusted_half  |-> adjusted_half,
          intensity_thresh |-> intensity_thresh,
          intensity      |-> intensity,
          mdd            |-> create_impact_curve(intensity, intensity_thresh,
                                                 adjusted_half, a.context,
                                                 a.hazard_type),
          paa            |-> create_paa_curve(intensity, a.context, a.hazard_type) ]

NoImpf ==
    [ haz_type |-> "None", intensity_unit |-> "None", adjusted_half |-> 0,
      intensity_thresh |-> 0, intensity |-> << >>, mdd |-> << >>, paa |-> << >> ]

\* Most compounding flags set at once in a call.
MaxFlags == 1

\* The vulnerability parameters a call is made with: the ends of the hazard's
\* valid range and the figure of the test suite.
HalfValues(hazard_type) ==
    IF hazard_type = "flood"
    THEN { IntensityUnit("flood") \div 20, (3 * IntensityUnit("flood")) \div 2,
           2 * IntensityUnit("flood") }
    ELSE { 5 * IntensityUnit("conflict"), 40 * IntensityUnit("conflict"),
           100 * IntensityUnit("conflict") }

\* The values a curve's context takes for the fields the curve depends on:
\* below, at and above each comparison value.
InfrastructureValues == {2500, 3000, 3500, 7000, 7500}

WarningValues == {2500, 3000, 5500, 7000, 7500}

SettlementValues == {"urban", "rural", "peri-urban"}

PovertyValues == {4500, 5000, 5500}

\* The fields of c that differ from those of BaseContext.
ChangedFields(c) ==
    { f \in { "infrastructure_quality", "early_warning_coverage", "urban_rural",
              "poverty_rate" } : c[f] # BaseContext[f] }

\* The contexts a curve is built for: BaseContext with at most two of these
\* fields replaced; an urban context is densely populated.
CurveContexts ==
    { c \in { [BaseContext EXCEPT !.infrastructure_quality = q,
                                  !.early_warning_coverage = w,
                                  !.urban_rural = u,
                                  !.poverty_rate = r,
                                  !.population_density =
                                      IF u = "urban" THEN 600 ELSE 150] :
                q \in InfrastructureValues, w \in WarningValues,
                u \in SettlementValues, r \in PovertyValues } :
        Cardinality(ChangedFields(c)) <= 2 }

\* The two thresholds of config.forecast: flood depth (m) and conflict
\* fatalities, in intensity units.
ForecastThresholds ==
    { << (3 * IntensityUnit("flood")) \div 10, 10 * IntensityUnit("conflict") >>,
      << (5 * IntensityUnit("flood")) \div 10, 5 * IntensityUnit("conflict") >> }

CurveArgs ==
    [ hazard_type : HazardTypes, context : CurveContexts,
      compounding : { CompoundingFactors(S) :
                        S \in { T \in SUBSET CompoundingFlags :
                                  Cardinality(T) <= MaxFlags } },
      intensity_half : HalfValues("flood") \cup HalfValues("conflict") ]

\* One call of create_contextual_impact_function on the arguments at hand.
CreateContextualImpactFunction ==
    /\ impf = NoImpf
    /\ impf' = create_contextual_impact_function(curve_args,
                    flood_depth_threshold_m, conflict_fatality_threshold)
    /\ UNCHANGED << flood_depth_threshold_m, conflict_fatality_threshold,
                    curve_args, notCurveVars >>

CurveInit ==
    /\ \E t \in ForecastThresholds :
          /\ flood_depth_threshold_m = t[1]
          /\ conflict_fatality_threshold = t[2]
    /\ curve_args \in { a \in CurveArgs :
                           a.intensity_half \in HalfValues(a.hazard_type) }
    /\ impf = NoImpf

CurveIdle ==
    /\ flood_depth_threshold_m = (3 * IntensityUnit("flood")) \div 10
    /\ conflict_fatality_threshold = 10 * IntensityUnit("conflict")
    /\ curve_args = [ hazard_type |-> "flood", context |-> BaseContext,
                      compounding |-> CompoundingFactors({}),
                      intensity_half |-> (3 * IntensityUnit("flood")) \div 2 ]
    /\ impf = NoImpf

CurveNext == CreateContextualImpactFunction

(***************************************************************************)
(* AlertSystem (alert_system.py)                                           *)
(*                                                                         *)
(* Displacement in people, probability in percent, priority in hundredths. *)
(***************************************************************************)

\* Most rows of a forecasts frame.
MaxForecasts == 2

\* Rows of a forecasts frame: expected_displacement and probability.  The
\* priorities of any two of them differ, so sort_values has no ties.
ForecastRows == [ expected_displacement : {4000, 6000, 50000}, probability : {30, 50} ]

\* Forecasts frames: up to MaxForecasts rows, no row twice.
ForecastFrames ==
    { f \in UNION { [1 .. n -> ForecastRows] : n \in 1 .. MaxForecasts } :
        \A i, j \in 1 .. Len(f) : i # j => f[i] # f[j] }

\* Arguments of generate_alerts: the defaults and stricter ones.
DisplacementThresholds == {5000, 60000}

ProbabilityThresholds == {40, 60}

\* _assign_alert_level(row): risk_score = (displacement / 50000) * probability.
assign_alert_level(row) ==
    LET displacement == row.expected_displacement
        risk_score   == displacement * row.probability
    IN  IF risk_score >= 80 * 50000 \/ displacement >= 50000 THEN "critical"
        ELSE IF risk_score >= 60 * 50000 \/ displacement >= 20000 THEN "severe"
        ELSE IF risk_score >= 40 * 50000 \/ displacement >= 10000 THEN "moderate"
        ELSE "low"

\* _calculate_priority(row): round((displacement / 1000) * probability, 2).
calculate_priority(row) == (row.expected_displacement * row.probability) \div 1000

\* A row of the alerts frame.
AlertRow(row) ==
    [ expected_displacement |-> row.expected_displacement,
      probability           |-> row.probability,
      alert_level           |-> assign_alert_level(row),
      alert_priority        |-> calculate_priority(row) ]

\* sort_values('alert_priority', ascending=False): row k is the one with
\* k - 1 rows of higher priority.
SortByPriority(rows) ==
    [ k \in 1 .. Len(rows) |->
        CHOOSE r \in { rows[j] : j \in 1 .. Len(rows) } :
            Cardinality({ j \in 1 .. Len(rows) :
                            rows[j].alert_priority > r.alert_priority }) = k - 1 ]

\* The frame generate_alerts builds: the rows at or above both thresholds,
\* with level and priority, by descending priority.
significant_alerts(frame, displacement_threshold, probability_threshold) ==
    LET Significant(row) == /\ row.expected_displacement >= displacement_threshold
                            /\ row.probability >= probability_threshold
        significant == SelectSeq(frame, Significant)
    IN  SortByPriority([ i \in 1 .. Len(significant) |-> AlertRow(significant[i]) ])

\* self.alerts = None.
NoAlerts == [ is_none |-> TRUE, rows |-> << >> ]

NotGenerated == [ called |-> FALSE, rows |-> << >> ]

NoReport == [ op |-> "none", generated |-> << >>, rows |-> << >>,
              total |-> 0, written |-> FALSE ]

\* generate_alerts(displacement_threshold, probability_threshold): with no
\* significant row it returns an empty frame at once; otherwise it stores
\* the alerts frame in self.alerts and returns it.
GenerateAlerts(displacement_threshold, probability_threshold) ==
    LET significant == significant_alerts(forecasts, displacement_threshold,
                                          probability_threshold)
    IN  /\ IF Len(significant) = 0
           THEN /\ generated' = [ called |-> TRUE, rows |-> << >> ]
                /\ UNCHANGED alerts
           ELSE /\ alerts' = [ is_none |-> FALSE, rows |-> significant ]
                /\ generated' = [ called |-> TRUE, rows |-> significant ]
        /\ UNCHANGED << forecasts, report, notLegacyVars >>

\* The rows of level 'critical'.
critical_rows(rows) ==
    LET Critical(row) == row.alert_level = "critical"
    IN  SelectSeq(rows, Critical)

\* get_critical_alerts(): an empty frame when self.alerts is None or empty,
\* else its critical rows.
get_critical_alerts(a) ==
    IF a.is_none \/ Len(a.rows) = 0 THEN << >> ELSE critical_rows(a.rows)

GetCriticalAlerts ==
    /\ generated.called
    /\ report' = [ op |-> "get_critical_alerts", generated |-> generated.rows,
                   rows |-> get_critical_alerts(alerts), total |-> 0,
                   written |-> FALSE ]
    /\ UNCHANGED << forecasts, alerts, generated, notLegacyVars >>

\* create_alert_bulletin(): None when self.alerts is None or empty, else the
\* bulletin is written with the total and the critical alerts of self.alerts.
CreateAlertBulletin ==
    /\ generated.called
    /\ report' =
          IF alerts.is_none \/ Len(alerts.rows) = 0
          THEN [ op |-> "create_alert_bulletin", generated |-> generated.rows,
                 rows |-> << >>, total |-> 0, written |-> FALSE ]
          ELSE [ op |-> "create_alert_bulletin", generated |-> generated.rows,
                 rows |-> get_critical_alerts(alerts),
                 total |-> Len(alerts.rows), written |-> TRUE ]
    /\ UNCHANGED << forecasts, alerts, generated, notLegacyVars >>

\* AlertSystem(forecasts_df).
LegacyInit ==
    /\ forecasts \in ForecastFrames
    /\ alerts = NoAlerts
    /\ generated = NotGenerated
    /\ report = NoReport

\* An AlertSystem that is never used.
LegacyIdle ==
    /\ forecasts = << >>
    /\ alerts = NoAlerts
    /\ generated = NotGenerated
    /\ report = NoReport

LegacyNext ==
    \/ \E d \in DisplacementThresholds, p \in ProbabilityThresholds :
          GenerateAlerts(d, p)
    \/ GetCriticalAlerts
    \/ CreateAlertBulletin

(***************************************************************************)
(* Specifications                                                          *)
(***************************************************************************)

Init == RunInit /\ VulnIdle /\ AlertIdle /\ CombineIdle /\ CurveIdle /\ QcIdle /\ LegacyIdle

Next == RunNext

Spec == Init /\ [][Next]_vars

InitVuln == VulnInit /\ AlertIdle /\ RunIdle /\ CombineIdle /\ CurveIdle /\ QcIdle /\ LegacyIdle

SpecVuln == InitVuln /\ [][VulnNext]_vars

InitLevel == LevelInit /\ VulnIdle /\ RunIdle /\ CombineIdle /\ CurveIdle /\ QcIdle /\ LegacyIdle

SpecLevel == InitLevel /\ [][LevelNext]_vars

InitAlert == AlertInit /\ VulnIdle /\ RunIdle /\ CombineIdle /\ CurveIdle /\ QcIdle /\ LegacyIdle

SpecAlert == InitAlert /\ [][AlertNext]_vars

InitDecision ==
    DecisionInit /\ VulnIdle /\ RunIdle /\ CombineIdle /\ CurveIdle /\ QcIdle /\ LegacyIdle

SpecDecision == InitDecision /\ [][DecisionNext]_vars

InitCombine == CombineInit /\ VulnIdle /\ AlertIdle /\ RunIdle /\ CurveIdle /\ QcIdle /\ LegacyIdle

SpecCombine == InitCombine /\ [][CombineNext]_vars

InitCurve == CurveInit /\ VulnIdle /\ AlertIdle /\ RunIdle /\ CombineIdle /\ QcIdle /\ LegacyIdle

SpecCurve == InitCurve /\ [][CurveNext]_vars

InitQuality ==
    QcInit /\ VulnIdle /\ AlertIdle /\ RunIdle /\ CombineIdle /\ CurveIdle /\ LegacyIdle

SpecQuality == InitQuality /\ [][QcNext]_vars

InitLegacy ==
    LegacyInit /\ VulnIdle /\ AlertIdle /\ RunIdle /\ CombineIdle /\ CurveIdle /\ QcIdle

SpecLegacy == InitLegacy /\ [][LegacyNext]_vars

(***************************************************************************)
(* Claims about MLEnhancedVulnerability (checked under SpecVuln)           *)
(***************************************************************************)

\* The regional default the fallback is documented to return for a call.
RegionalDefaultOf(call) ==
    [ table |-> IF call.hazard_type = "flood" THEN "flood_params" ELSE "conflict_params",
      key   |-> IF call.context.region \in TableRegions
                THEN call.context.region ELSE "North_Central",
      field |-> "p50" ]

\* C4: an estimator constructed where the requested hazard type's model file is
\* missing or fails to load, and not trained since, answers every
\* predict_vulnerability call for that hazard type with the regional default
\* and never raises.
C4_ModelUnavailableFallsBack ==
    ( /\ last_predict.hazard_type \in HazardTypes
      /\ last_predict.train_calls = {}
      /\ loaded_from[last_predict.hazard_type].state \in {"missing", "corrupt"} )
    => ( /\ last_predict.outcome.kind = "default"
         /\ last_predict.outcome.cell = RegionalDefaultOf(last_predict) )

\* C5: after some train calls, a predict_vulnerability call for a hazard type
\* that has no regressor uses the regional table and does not raise, and the
\* learned path is taken only with a regressor for that same hazard type.
C5_PerHazardFallback ==
    ( /\ last_predict.hazard_type \in HazardTypes
      /\ last_predict.train_calls # {} )
    => ( /\ last_predict.model = NoModel
            => ( /\ last_predict.outcome.kind = "default"
                 /\ last_predict.outcome.cell = RegionalDefaultOf(last_predict) )
         /\ last_predict.outcome.kind = "learned"
            => last_predict.model # NoModel )

\* C6: whenever the fallback path answers, the value is the p50 cell of the
\* context's region in the hazard type's table if the region is a key, and the
\* p50 cell of North_Central in the same table otherwise; no region string
\* makes the fallback raise.
C6_RegionalFallbackLookup ==
    last_predict.outcome.kind = "default"
    => last_predict.outcome.cell = RegionalDefaultOf(last_predict)

\* C6 witness: the fallback answered for a region string that is no table key.
C6_Witness ==
    /\ last_predict.outcome.kind = "default"
    /\ last_predict.context.region \notin TableRegions
    /\ last_predict.outcome.cell.key = "North_Central"

\* C25: a call of predict_vulnerability, on the learned or on the fallback
\* path, leaves flood_model, conflict_model, the scaler's statistics and the
\* trained flag as they were (and writes no model file).
C25_InferenceNeverRetrains == last_predict # NoCall => last_predict.fields_kept

\* A prediction on the learned path that left the fitted fields it used.
C25_Witness ==
    /\ last_predict.outcome.kind = "learned"
    /\ last_predict.hazard_type = "flood"
    /\ last_predict.fields_kept
    /\ trained
    /\ flood_model = last_predict.outcome.model
    /\ scaler = last_predict.outcome.scaler

\* The estimator was constructed against a models_dir holding a saved model
\* for the hazard type and has not trained since.
LoadedModel(hazard_type) ==
    /\ loaded_from[hazard_type].state = "saved"
    /\ train_calls = {}

\* C26: after an estimator has trained and saved the model of a hazard type,
\* a newly constructed estimator that loads it predicts as the training
\* estimator did, without raising: with the saved regressor and with the
\* scaling statistics fitted at that training.
C26_PersistLoadRoundTrip ==
    ( /\ last_predict # NoCall
      /\ last_predict.train_calls = {}
      /\ LoadedModel(last_predict.hazard_type) )
    => /\ last_predict.outcome.kind = "learned"
       /\ last_predict.outcome.model = loaded_from[last_predict.hazard_type].model
       /\ last_predict.outcome.scaler
            = loaded_from[last_predict.hazard_type].model.data

\* C28: the scaling statistics predict_vulnerability applies for a hazard
\* type are those fitted by the latest train call for that type; a later
\* train call for the other type does not change them.
C28_PerHazardScaling ==
    ( /\ last_predict # NoCall
      /\ last_predict.hazard_type \in last_predict.train_calls )
    => /\ last_predict.outcome.kind = "learned"
       /\ last_predict.outcome.scaler = last_predict.outcome.model.data

(***************************************************************************)
(* Claims about AlertManager._determine_alert_level (checked under         *)
(* SpecLevel)                                                              *)
(***************************************************************************)

ThresholdsOrdered ==
    /\ displacement_alert_levels["watch"] <= displacement_alert_levels["advisory"]
    /\ displacement_alert_levels["advisory"] <= displacement_alert_levels["warning"]
    /\ displacement_alert_levels["warning"] <= displacement_alert_levels["emergency"]

LevelRank(level) ==
    CASE level = "none" -> 0
      [] level = "watch" -> 1
      [] level = "advisory" -> 2
      [] level = "warning" -> 3
      [] level = "emergency" -> 4

\* C7: with ordered thresholds the level is emergency iff p90 >= T_emergency,
\* warning iff T_warning <= p90 < T_emergency, advisory iff p90 < T_warning and
\* mean >= T_advisory, watch iff p90 < T_warning and T_watch <= mean < T_advisory,
\* and none otherwise; so the mean never yields warning or emergency and p90
\* never yields advisory or watch.
C7_AlertLevelSelection ==
    LET c == level_calls[2]
        T == displacement_alert_levels
    IN  (c.level # "uncalled" /\ ThresholdsOrdered)
        => /\ c.level = "emergency" <=> c.p90_disp >= T["emergency"]
           /\ c.level = "warning"
                <=> (T["warning"] <= c.p90_disp /\ c.p90_disp < T["emergency"])
           /\ c.level = "advisory"
                <=> (c.p90_disp < T["warning"] /\ c.mean_disp >= T["advisory"])
           /\ c.level = "watch"
                <=> ( /\ c.p90_disp < T["warning"]
                      /\ T["watch"] <= c.mean_disp
                      /\ c.mean_disp < T["advisory"] )
           /\ c.level = "none"
                <=> (c.p90_disp < T["warning"] /\ c.mean_disp < T["watch"])

\* C7 witness: strictly ordered thresholds, a mean at the emergency threshold
\* and a p90 below the warning threshold: the call answers advisory.
C7_Witness ==
    LET c == level_calls[2]
        T == displacement_alert_levels
    IN  /\ T["watch"] < T["advisory"]
        /\ T["advisory"] < T["warning"]
        /\ T["warning"] < T["emergency"]
        /\ c.level = "advisory"
        /\ c.mean_disp >= T["emergency"]
        /\ c.p90_disp < T["warning"]

\* C8: of two calls with the same mean, the one with the larger p90 never gets
\* the lower level in none < watch < advisory < warning < emergency, whatever
\* the configured thresholds.
C8_AlertMonotonicity ==
    LET a == level_calls[1]
        b == level_calls[2]
    IN  ( /\ a.level # "uncalled"
          /\ b.level # "uncalled"
          /\ a.mean_disp = b.mean_disp
          /\ a.p90_disp <= b.p90_disp )
        => LevelRank(a.level) <= LevelRank(b.level)

\* C8 witness: two calls with one mean, the p90 raised between them, and the
\* level raised from a mean-driven tier to a p90-driven one.
C8_Witness ==
    LET a == level_calls[1]
        b == level_calls[2]
    IN  /\ a.level = "advisory"
        /\ b.level = "warning"
        /\ a.mean_disp = b.mean_disp
        /\ a.p90_disp < b.p90_disp

(***************************************************************************)
(* Claims about AlertManager.generate_alert_decision (checked under        *)
(* SpecAlert)                                                              *)
(***************************************************************************)

\* C9: in every AlertDecision, should_trigger is true exactly when the level is
\* warning or emergency and the metrics' confidence_level is high or medium; a
\* column whose p90 is at or above the emergency threshold gives emergency, and
\* triggers with confidence high and does not with confidence low.
C9_TriggerRule ==
    LET d == alert_call
    IN  d.alert_level # "uncalled"
        => /\ d.should_trigger
                <=> ( /\ d.alert_level \in {"warning", "emergency"}
                      /\ metrics.confidence_level \in {"high", "medium"} )
           /\ d.p90_disp >= displacement_alert_levels["emergency"]
                => /\ d.alert_level = "emergency"
                   /\ metrics.confidence_level = "high" => d.should_trigger
                   /\ metrics.confidence_level = "low" => ~d.should_trigger

\* C9 witness: a column with p90 at the emergency threshold and confidence low:
\* the decision is emergency and is not triggered.
C9_Witness ==
    /\ alert_call.alert_level = "emergency"
    /\ alert_call.p90_disp >= displacement_alert_levels["emergency"]
    /\ metrics.confidence_level = "low"
    /\ ~alert_call.should_trigger

(***************************************************************************)
(* Claims about ProductionForecastEngine.run_forecast (checked under Spec) *)
(***************************************************************************)

\* The calls of run_forecast that follow the input validation loop.
AfterInputValidation ==
    { "calculate_impact", "combine", "compile", "validate_outputs",
      "calculate_metrics", "generate_alert_decision", "save_results",
      "distribute_alert" }

\* A requested hazard for which validate_inputs must answer not-ok: no events,
\* or an exposure with no records or a zero value sum.
InputInvalid(h) ==
    \/ hazard_files[h].n_events = 0
    \/ exposure.n_records = 0
    \/ exposure.value_sum = 0

\* C10: if validate_inputs is not ok for some requested hazard, the run raises
\* and makes none of the calls after the validation loop (impact calculation,
\* combination, compilation, output validation, metrics, alert decision,
\* saving, distribution); and every requested hazard has been validated before
\* the first impact calculation.
C10_InputValidationAbort ==
    /\ (\E h \in hazard_types : InputInvalid(h))
         => /\ \A i \in 1 .. Len(steps) : steps[i].op \notin AfterInputValidation
            /\ run_pc \in {"load", "validate_inputs", "raised"}
            /\ saved = NoAlertCall
            /\ sent = {}
    /\ \A i \in 1 .. Len(steps) :
          steps[i].op = "calculate_impact"
          => \A h \in hazard_types :
                \E j \in 1 .. (i - 1) : steps[j] = Step("validate_inputs", h)

\* C10 witness: two hazards requested, flood valid and conflict without
\* events: the run has validated both and raised, and nothing was calculated.
C10_Witness ==
    /\ hazard_types = {"flood", "conflict"}
    /\ ~InputInvalid("flood")
    /\ InputInvalid("conflict")
    /\ run_pc = "raised"
    /\ steps[Len(steps)] = Step("raise", "Input validation failed")
    /\ \E j \in 1 .. Len(steps) : steps[j] = Step("validate_inputs", "flood")
    /\ DOMAIN impacts = {}

\* C3: whatever the method and the inputs, every element of the combined
\* impact that combine_hazards returns is at most 0.95.
C3_CombinationCeiling ==
    \A i \in 1 .. Len(combine_result.combined) :
        combine_result.combined[i] <= (95 * Scale) \div 100

\* C1: in every curve create_contextual_impact_function builds, mdd is
\* exactly 0 at every grid intensity strictly below the configured threshold.
C1_ThresholdZeroing ==
    \A i \in 1 .. Len(impf.mdd) :
        impf.intensity[i] < impf.intensity_thresh => impf.mdd[i] = 0

\* What rounding can take off a curve value: a hundredth, far above the
\* few units the arithmetic loses.
Rounding == Scale \div 100

\* C2: in every curve built, mdd does not decrease from one grid intensity
\* at or above the threshold to the next (beyond what rounding accounts for).
C2_Monotonicity ==
    \A i \in 1 .. Len(impf.mdd) - 1 :
        impf.intensity[i] >= impf.intensity_thresh
            => impf.mdd[i + 1] >= impf.mdd[i] - Rounding

\* The calls of run_forecast that follow its output validation.
AfterOutputValidation ==
    { "calculate_metrics", "generate_alert_decision", "save_results",
      "distribute_alert" }

\* The compiled forecasted_displacement column holds a NaN.
HasNaN(column) == \E i \in 1 .. Len(column) : column[i] = NaN

\* C11: when the compiled samples hold a NaN, run_forecast raises right after
\* validate_outputs: no metrics, alert decision, save or distribution follows,
\* and no AlertDecision is created, saved or sent.
C11_OutputValidationAbort ==
    HasNaN(results_df) =>
        /\ run_pc \in {"validate_outputs", "raised"}
        /\ run_pc = "raised" =>
              /\ steps[Len(steps)] = Step("raise", "Output validation failed")
              /\ steps[Len(steps) - 1] = Step("validate_outputs", "")
        /\ \A j \in 1 .. Len(steps) : steps[j].op \notin AfterOutputValidation
        /\ run_metrics = NoMetrics
        /\ run_alert = NoAlertCall
        /\ saved = NoAlertCall
        /\ sent = {}

C11_Witness ==
    /\ HasNaN(results_df)
    /\ run_pc = "raised"
    /\ steps[Len(steps)] = Step("raise", "Output validation failed")

(***************************************************************************)
(* Claims about QualityController (checked under SpecQuality)              *)
(***************************************************************************)

\* The messages of a returned list, as a set.
Messages(call) == { call.messages[i] : i \in 1 .. Len(call.messages) }

\* C12: validate_inputs returns not-ok exactly when the hazard has no events,
\* the exposure has no records or the exposure values sum to zero, and the
\* list then names the cause ("... sum to zero" for the zero sum); otherwise
\* it returns ok, all-zero intensities and fewer than 5 events only adding
\* their warning.
C12_ValidateInputsOutcome ==
    inputs_call.called =>
        LET h == inputs_call.hazard
            e == inputs_call.exposure
        IN  /\ inputs_call.ok
                  = ~(h.n_events = 0 \/ e.n_records = 0 \/ e.value_sum = 0)
            /\ h.n_events = 0
                  => inputs_call.messages = << "Hazard has no events" >>
            /\ h.n_events > 0 /\ e.n_records = 0
                  => inputs_call.messages = << "Exposure has no data" >>
            /\ h.n_events > 0 /\ e.n_records > 0 /\ e.value_sum = 0
                  => inputs_call.messages = << "Exposure values sum to zero" >>
            /\ inputs_call.ok =>
                  /\ "Hazard intensity is all zeros" \in Messages(inputs_call)
                        <=> h.all_zero
                  /\ "Low ensemble size" \in Messages(inputs_call)
                        <=> h.n_events < 5

C12_Witness ==
    /\ inputs_call.called
    /\ inputs_call.hazard.n_events > 0
    /\ inputs_call.exposure.n_records > 0
    /\ inputs_call.exposure.value_sum = 0
    /\ ~inputs_call.ok
    /\ inputs_call.messages = << "Exposure values sum to zero" >>

\* The warnings validate_outputs can give.
OutputWarnings ==
    { "Very high displacement forecast", "High uncertainty", "Low sample size" }

\* C13: validate_outputs returns not-ok exactly when the column holds a NaN,
\* and the list then starts with the NaN error, the warnings after it; a
\* maximum above 5,000,000, a p95 above the configured factor times (p05 + 1)
\* and fewer than 100 rows each add their warning and nothing else.
C13_ValidateOutputsOutcome ==
    outputs_call.called =>
        LET column  == outputs_call.column
            numbers == DropNaN(column)
            msgs    == outputs_call.messages
        IN  /\ outputs_call.ok = ~HasNaN(column)
            /\ ~outputs_call.ok =>
                  /\ msgs[1] = "NaN values in forecast output"
                  /\ \A i \in 2 .. Len(msgs) : msgs[i] \in OutputWarnings
            /\ outputs_call.ok => \A i \in 1 .. Len(msgs) : msgs[i] \in OutputWarnings
            /\ "Low sample size" \in Messages(outputs_call) <=> Len(column) < 100
            /\ "Very high displacement forecast" \in Messages(outputs_call)
                  <=> (numbers # << >> /\ \E i \in 1 .. Len(numbers) :
                                              numbers[i] > 5000000)
            /\ "High uncertainty" \in Messages(outputs_call)
                  <=> (/\ numbers # << >>
                       /\ SeriesQuantile(numbers, 95)
                             > outputs_call.error_factor
                                 * (SeriesQuantile(numbers, 5) + 1))

C13_Witness ==
    /\ outputs_call.called
    /\ HasNaN(outputs_call.column)
    /\ ~outputs_call.ok
    /\ outputs_call.messages
         = << "NaN values in forecast output", "Very high displacement forecast",
              "Low sample size" >>

\* The mean of the three quality inputs of a calculate_quality_score call.
BaseScore(call) ==
    (call.hazard_quality + call.model_confidence + call.data_completeness) \div 3

\* min(0.1 * n_warnings, 0.3), case by case.
WarningPenalty(n_warnings) ==
    IF n_warnings >= 3 THEN (3 * Scale) \div 10 ELSE n_warnings * (Scale \div 10)

\* C14: calculate_quality_score returns the mean of the three inputs less
\* min(0.1 * n_warnings, 0.3), floored at 0; the result is in [0, 1] and is
\* never more than 0.3 below the mean.
C14_QualityScore ==
    score_call.called =>
        /\ score_call.score
             = (IF BaseScore(score_call) > WarningPenalty(score_call.n_warnings)
                THEN BaseScore(score_call) - WarningPenalty(score_call.n_warnings)
                ELSE 0)
        /\ score_call.score >= 0
        /\ score_call.score <= Scale
        /\ BaseScore(score_call) - score_call.score <= (3 * Scale) \div 10

C14_Witness ==
    /\ score_call.called
    /\ score_call.n_warnings > 3
    /\ score_call.score > 0
    /\ score_call.score = BaseScore(score_call) - (3 * Scale) \div 10

\* The score of the call's quality inputs with n warnings.
ScoreWith(n) ==
    calculate_quality_score(score_call.hazard_quality, score_call.model_confidence,
                            score_call.data_completeness, n)

\* C27 as stated: for fixed quality inputs and warning counts n1 < n2 the
\* score with n2 warnings is strictly lower than the score with n1.
C27_Stated ==
    score_call.called =>
        \A n1 \in 0 .. (score_call.n_warnings - 1) : score_call.score < ScoreWith(n1)

\* C27, amended: for fixed quality inputs and n1 < n2 the score with n2
\* warnings is never higher than the score with n1, and it is strictly lower
\* when n1 is below 3 (the penalty is not yet capped) and the score with n1
\* is above 0.
C27_MoreWarningsLowerScore ==
    score_call.called =>
        \A n1 \in 0 .. (score_call.n_warnings - 1) :
            /\ score_call.score <= ScoreWith(n1)
            /\ (n1 < 3 /\ ScoreWith(n1) > 0) => score_call.score < ScoreWith(n1)

\* The test's case: 0.8, 0.75, 0.9 with 5 warnings scores below the same
\* with 2, and equal to the same with 3.
C27_Witness ==
    /\ score_call.called
    /\ score_call.hazard_quality = (80 * Scale) \div 100
    /\ score_call.model_confidence = (75 * Scale) \div 100
    /\ score_call.data_completeness = (90 * Scale) \div 100
    /\ score_call.n_warnings = 5
    /\ score_call.score < ScoreWith(2)
    /\ score_call.score = ScoreWith(3)

(***************************************************************************)
(* Claims about MultiHazardInteraction (checked under SpecCombine)         *)
(***************************************************************************)

\* combine_hazards has returned, and the method was the sophisticated one.
SophisticatedReturned == combine_result.metrics.method = "sophisticated"

\* Sample i of the call has both hazards present: both normalized
\* intensities above 0.1.
BothPresent(i) ==
    /\ Normalize(combine_args.flood_intensity)[i] > Scale \div 10
    /\ Normalize(combine_args.conflict_intensity)[i] > Scale \div 10

\* Neither cascade term of the call is active.
NoCascade ==
    /\ MeanSeq(Normalize(combine_args.flood_intensity)) <= Scale \div 2
    /\ MeanSeq(Normalize(combine_args.conflict_intensity)) <= Scale \div 2

\* C15: in the sophisticated combination a sample whose normalized flood or
\* conflict intensity is at most 0.1 gets no compounding: with no cascade
\* term active its combined value is max(flood_impact, conflict_impact)
\* clipped to [0, 0.95], whatever the other samples of the series are.
C15_CompoundingOnlyInOverlap ==
    SophisticatedReturned /\ NoCascade =>
        \A i \in 1 .. Len(combine_result.combined) :
            ~BothPresent(i) =>
                combine_result.combined[i]
                  = Clip(Max(combine_args.flood_impact[i],
                             combine_args.conflict_impact[i]), 0, (95 * Scale) \div 100)

\* Both hazards are at normalized intensity 1.0 in every sample of the call.
FullEverywhere ==
    \A i \in 1 .. Len(combine_args.flood_impact) :
        /\ Normalize(combine_args.flood_intensity)[i] = Scale
        /\ Normalize(combine_args.conflict_intensity)[i] = Scale

\* The larger of the two input impact sums (the means times the length).
LargerImpactSum ==
    Max(SumSeq(combine_args.flood_impact), SumSeq(combine_args.conflict_impact))

\* The combined mean strictly exceeds the larger input impact mean and the
\* reported compounding factor is above 1.
Dominates ==
    /\ SumSeq(combine_result.combined) > LargerImpactSum
    /\ combine_result.metrics.compounding_factor > Scale

\* C16 as stated: sophisticated method, coefficient above 1, both hazards at
\* normalized intensity 1.0 in every sample and the larger input impact mean
\* below 0.95: the combined mean strictly exceeds the larger input impact mean
\* and metrics['compounding_factor'] is above 1.
C16_Stated ==
    ( /\ SophisticatedReturned
      /\ flood_conflict_interaction > Scale
      /\ FullEverywhere
      /\ LargerImpactSum < Len(combine_args.flood_impact) * ((95 * Scale) \div 100) )
    => Dominates

\* C16, amended: the same, for inputs where no impact is above 0.95 and some
\* sample's larger impact is strictly between 0 and 0.95.
C16_CompoundingDominance ==
    ( /\ SophisticatedReturned
      /\ flood_conflict_interaction > Scale
      /\ FullEverywhere
      /\ \A i \in 1 .. Len(combine_args.flood_impact) :
            Max(combine_args.flood_impact[i], combine_args.conflict_impact[i])
              <= (95 * Scale) \div 100
      /\ \E i \in 1 .. Len(combine_args.flood_impact) :
            /\ Max(combine_args.flood_impact[i], combine_args.conflict_impact[i]) > 0
            /\ Max(combine_args.flood_impact[i], combine_args.conflict_impact[i])
                 < (95 * Scale) \div 100 )
    => Dominates

C16_Witness ==
    /\ SophisticatedReturned
    /\ flood_conflict_interaction > Scale
    /\ FullEverywhere
    /\ combine_args.flood_impact = << 4000, 9500 >>
    /\ combine_args.conflict_impact = << 5000, 0 >>
    /\ Dominates

\* C17: with method 'simple_max' combine_hazards returns exactly the
\* elementwise maximum of the two impact series, whatever the intensities and
\* the context, and reports method 'max' and interaction 0.
C17_SimpleMax ==
    combine_args.method = "simple_max" /\ combine_result # NoCombineResult =>
        /\ combine_result.combined
             = [ i \in 1 .. Len(combine_args.flood_impact) |->
                   IF combine_args.flood_impact[i] >= combine_args.conflict_impact[i]
                   THEN combine_args.flood_impact[i]
                   ELSE combine_args.conflict_impact[i] ]
        /\ combine_result.metrics.method = "max"
        /\ combine_result.metrics.interaction = 0

\* The documented example: [0.1, 0.5] and [0.3, 0.2] give [0.3, 0.5].
C17_Witness ==
    /\ combine_args.method = "simple_max"
    /\ combine_args.flood_impact = << 1000, 5000 >>
    /\ combine_args.conflict_impact = << 3000, 2000 >>
    /\ combine_result.combined = << 3000, 5000 >>

(***************************************************************************)
(* Claims about AdaptiveImpactFunction (checked under SpecCurve)           *)
(***************************************************************************)

\* create_contextual_impact_function has returned.
CurveBuilt == impf # NoImpf

\* C18: every curve built has intensity, mdd and paa of one length over the
\* hazard's strictly ascending grid (flood 0 to 6 m in steps of 0.05,
\* conflict 0 to 250 in steps of 2, the end left out), every mdd in
\* [0, 0.95] and every paa in [0.1, 1.0].
C18_CurveShape ==
    CurveBuilt =>
        LET unit == IntensityUnit(curve_args.hazard_type)
            n    == Len(impf.intensity)
            step == IF curve_args.hazard_type = "flood" THEN (5 * unit) \div 100
                    ELSE 2 * unit
            stop == IF curve_args.hazard_type = "flood" THEN 6 * unit ELSE 250 * unit
        IN  /\ Len(impf.mdd) = n
            /\ Len(impf.paa) = n
            /\ n > 0
            /\ impf.intensity[1] = 0
            /\ \A i \in 1 .. n - 1 : impf.intensity[i + 1] = impf.intensity[i] + step
            /\ impf.intensity[n] < stop
            /\ impf.intensity[n] + step >= stop
            /\ \A i \in 1 .. n :
                  /\ impf.mdd[i] >= 0
                  /\ impf.mdd[i] <= (95 * Scale) \div 100
                  /\ impf.paa[i] >= Scale \div 10
                  /\ impf.paa[i] <= Scale

\* A conflict curve that starts at 0 and reaches the ceiling.
C18_Witness ==
    /\ CurveBuilt
    /\ curve_args.hazard_type = "conflict"
    /\ Len(impf.mdd) = 125
    /\ impf.mdd[1] = 0
    /\ impf.mdd[125] = (95 * Scale) \div 100

\* The multipliers of a context, in percent and in the stated order:
\* infrastructure, early warning, settlement, poverty.
ContextMultipliers(c) ==
    << IF c.infrastructure_quality < 3000 THEN 85
       ELSE IF c.infrastructure_quality > 7000 THEN 115 ELSE 100,
       IF c.early_warning_coverage > 7000 THEN 125
       ELSE IF c.early_warning_coverage < 3000 THEN 90 ELSE 100,
       IF c.urban_rural = "urban" THEN 110
       ELSE IF c.urban_rural = "rural" THEN 95 ELSE 100,
       IF c.poverty_rate > 5000 THEN 85 ELSE 100 >>

\* The multipliers of the compounding flags, in percent and in the stated
\* order; an unset flag multiplies by 1.
FlagMultipliers(f, hazard_type) ==
    << IF f.has_recent_flood THEN 80 ELSE 100,
       IF f.has_recent_conflict THEN 75 ELSE 100,
       IF f.has_displacement_camp THEN 70 ELSE 100,
       IF f.is_rainy_season /\ hazard_type = "flood" THEN 85 ELSE 100,
       IF f.is_harvest_season THEN 110 ELSE 100,
       IF f.market_access_disrupted THEN 90 ELSE 100,
       IF f.healthcare_access_limited THEN 85 ELSE 100 >>

\* The product of multipliers, composed one after the other from 1.
RECURSIVE Compose(_, _)
Compose(adjustment, multipliers) ==
    IF multipliers = << >> THEN adjustment
    ELSE Compose((adjustment * Head(multipliers)) \div 100, Tail(multipliers))

\* A context none of whose fields triggers a multiplier.
Neutral(c) ==
    /\ c.infrastructure_quality >= 3000 /\ c.infrastructure_quality <= 7000
    /\ c.early_warning_coverage >= 3000 /\ c.early_warning_coverage <= 7000
    /\ c.urban_rural \notin {"urban", "rural"}
    /\ c.poverty_rate <= 5000

\* C19: the half-impact a curve is built with is intensity_half times the
\* context multipliers times the multipliers of the set compounding flags;
\* values equal to 0.3, 0.7 or 0.5 trigger none, and a neutral context with
\* no flag set leaves the parameter unchanged.
C19_AdjustedHalf ==
    CurveBuilt =>
        /\ impf.adjusted_half
             = (((curve_args.intensity_half
                    * Compose(Scale, ContextMultipliers(curve_args.context))) \div Scale)
                * Compose(Scale, FlagMultipliers(curve_args.compounding,
                                                curve_args.hazard_type))) \div Scale
        /\ ( /\ Neutral(curve_args.context)
             /\ curve_args.compounding = CompoundingFactors({}) )
           => impf.adjusted_half = curve_args.intensity_half

\* A neutral context with infrastructure_quality exactly 0.7.
C19_Witness ==
    /\ CurveBuilt
    /\ curve_args.context.infrastructure_quality = 7000
    /\ Neutral(curve_args.context)
    /\ curve_args.compounding = CompoundingFactors({})
    /\ impf.adjusted_half = curve_args.intensity_half

\* The half-impact is 0.931 to three decimals, in intensity units.
IsAbout931(half) ==
    /\ 10000 * half >= 9305 * IntensityUnit("flood")
    /\ 10000 * half < 9315 * IntensityUnit("flood")

\* The half-impact is 1.425 (1.5 * 0.95), in intensity units.
Is1425(half) == 1000 * half = 1425 * IntensityUnit("flood")

\* The call of example scenario 1: a flood curve for infrastructure_quality
\* 0.35, poverty_rate 0.45, early_warning_coverage 0.55, rural, no flags,
\* and a vulnerability of 1.5 m.
Scenario1 ==
    /\ CurveBuilt
    /\ curve_args.hazard_type = "flood"
    /\ curve_args.context = BaseContext
    /\ curve_args.compounding = CompoundingFactors({})
    /\ curve_args.intensity_half = (3 * IntensityUnit("flood")) \div 2

\* C20 as stated: in example scenario 1 the context-adjusted half-impact is
\* 1.5 * 0.85 * 0.9 * 0.95 * 0.85, about 0.931.
C20_Stated == Scenario1 => IsAbout931(impf.adjusted_half)

\* C20, amended: in example scenario 1 only the rural multiplier applies and
\* the context-adjusted half-impact is 1.5 * 0.95 = 1.425.
C20_Scenario1 == Scenario1 => Is1425(impf.adjusted_half)

C20_Witness == Scenario1 /\ Is1425(impf.adjusted_half)

(***************************************************************************)
(* Claims about the AlertDecision (checked under SpecDecision)             *)
(***************************************************************************)

DecisionMade == alert_call # NoAlertCall

\* The coefficient of variation of the column is a number below thousandths
\* / 1000.
CvBelow(column, thousandths) ==
    /\ CvSquared(column) # NaN
    /\ CvSquared(column) < thousandths * thousandths

\* ... is a number above thousandths / 1000.
CvAbove(column, thousandths) ==
    /\ CvSquared(column) # NaN
    /\ CvSquared(column) > thousandths * thousandths

\* C21: the confidence of an AlertDecision is min(1.0, q * 1.1) when the
\* coefficient of variation of the displacement sample is below 0.3, q * 0.8
\* when it is above 0.8 and q otherwise, q being the quality score; for q in
\* [0, 1] it is in [0, 1].
C21_AlertConfidence ==
    DecisionMade =>
        LET q == metrics.quality_score
        IN  /\ CvBelow(forecast_results, 300)
                  => alert_call.confidence = Min(Scale, (q * 110) \div 100)
            /\ CvAbove(forecast_results, 800)
                  => alert_call.confidence = (q * 80) \div 100
            /\ ~CvBelow(forecast_results, 300) /\ ~CvAbove(forecast_results, 800)
                  => alert_call.confidence = q
            /\ alert_call.confidence >= 0
            /\ alert_call.confidence <= Scale

\* A tight sample and a quality score of 0.95: 1.045 is capped at 1.
C21_Witness ==
    /\ DecisionMade
    /\ CvBelow(forecast_results, 300)
    /\ metrics.quality_score = (95 * Scale) \div 100
    /\ alert_call.confidence = Scale

\* generate_alert_decision was called twice: on the same frame, metrics and
\* configuration, which no operation changes.
CalledTwice == previous_alert # NoAlertCall

\* C24: generate_alert_decision is a pure function of its explicit inputs:
\* two calls with identical forecast_results, metrics, context and
\* configuration return AlertDecisions equal in every field, the rendered
\* message included.
C24_DecisionDeterminism == CalledTwice => alert_call = previous_alert

(***************************************************************************)
(* Claims about run_forecast's metrics and distribution (checked under     *)
(* Spec)                                                                   *)
(***************************************************************************)

MetricsCalculated == run_metrics # NoMetrics

\* The number of warnings validate_inputs returned over the hazards of the run.
InputWarningCount ==
    SumSeq([ i \in 1 .. Len(HazardOrder(hazard_types)) |->
               Len(validate_inputs(hazards[HazardOrder(hazard_types)[i]],
                                   exposure).messages) ])

\* C22: in run_forecast every non-fatal warning of the run, those of
\* validate_inputs as well as those of validate_outputs, is counted in the
\* n_warnings the quality score is calculated from, so each lowers the score
\* up to the cap.
C22_WarningsAccumulate ==
    MetricsCalculated =>
        /\ run_metrics.n_warnings = InputWarningCount + Len(output_warnings)
        /\ run_metrics.quality_score
             = calculate_quality_score((80 * Scale) \div 100, (75 * Scale) \div 100,
                                       (90 * Scale) \div 100,
                                       InputWarningCount + Len(output_warnings))

\* C23: in run_forecast the alert decision is saved by _save_results before
\* distribute_alert is called, in every run that passes both validations;
\* distribute_alert sends on no channel when should_trigger is false, and
\* when it is true on exactly the channels whose flag is enabled.
C23_RecordedNotDistributed ==
    /\ \A i \in 1 .. Len(steps) :
          steps[i].op = "distribute_alert"
          => /\ \E j \in 1 .. (i - 1) : steps[j].op = "save_results"
             /\ saved = run_alert
             /\ saved # NoAlertCall
    /\ run_pc = "distribute" => saved = run_alert /\ sent = {}
    /\ sent \subseteq alert_channels
    /\ ~run_alert.should_trigger => sent = {}
    /\ run_pc = "done"
          => sent = IF run_alert.should_trigger THEN alert_channels ELSE {}

\* A finished run whose decision does not trigger: it is saved, and nothing
\* is sent although every channel is enabled.
C23_Witness ==
    /\ run_pc = "done"
    /\ ~run_alert.should_trigger
    /\ alert_channels = AlertChannels
    /\ saved = run_alert
    /\ saved.alert_level = "watch"
    /\ sent = {}

\* C29: in run_forecast the metrics' confidence_level is 'high' or 'medium'
\* whatever the number of output warnings, never 'low' (the quality inputs
\* are 0.8, 0.75, 0.9 and the penalty is capped at 0.3), so every
\* AlertDecision of the pipeline with level 'warning' or 'emergency' has
\* should_trigger true.
C29_PipelineAlwaysTriggers ==
    /\ \A n \in 0 .. MaxWarnings :
          ConfidenceOf(calculate_quality_score((80 * Scale) \div 100,
                                               (75 * Scale) \div 100,
                                               (90 * Scale) \div 100, n))
             \in {"high", "medium"}
    /\ MetricsCalculated => run_metrics.confidence_level \in {"high", "medium"}
    /\ run_alert.alert_level \in {"warning", "emergency"} => run_alert.should_trigger
    /\ saved.alert_level \in {"warning", "emergency"} => saved.should_trigger

\* A run with three output warnings: the score is 0.5167, the level still
\* 'medium', and the emergency decision triggers.
C29_Witness ==
    /\ run_pc = "done"
    /\ run_metrics.n_warnings = 3
    /\ run_metrics.confidence_level = "medium"
    /\ run_alert.alert_level = "emergency"
    /\ run_alert.should_trigger

(***************************************************************************)
(* Claims about the AlertSystem of alert_system.py (checked under          *)
(* SpecLegacy)                                                             *)
(***************************************************************************)

\* C30: after any sequence of generate_alerts calls the alerts the
\* AlertSystem holds, and so what get_critical_alerts and
\* create_alert_bulletin report, are those the latest generate_alerts call
\* returned; after a call that finds nothing above the thresholds
\* get_critical_alerts is empty and create_alert_bulletin writes nothing.
C30_AlertCacheConsistency ==
    /\ generated.called => alerts.rows = generated.rows
    /\ report.op = "get_critical_alerts"
          => report.rows = critical_rows(report.generated)
    /\ report.op = "create_alert_bulletin"
          => /\ report.written = (Len(report.generated) > 0)
             /\ report.total = Len(report.generated)
             /\ report.rows = critical_rows(report.generated)

=============================================================================
